---------------------------- MODULE Spec2Model ----------------------------
(***************************************************************************)
(* Room / presence / session coordination core of the chat server          *)
(* (server.js): the in-memory maps roomDirectory, roomSockets, roomMembers, *)
(* roomMessages, callParticipants, userProfiles, adminSessions, and the     *)
(* Socket.io / HTTP handlers that mutate them.  Each handler runs to        *)
(* completion before the next one starts (single-threaded event loop), so   *)
(* each handler is one atomic action.                                       *)
(*                                                                         *)
(* Strings are sequences of one-character strings, so that trim() is a      *)
(* computation.  A JS Map is a function whose DOMAIN is the key set; a JS   *)
(* Set is a set.  Insertion order of Maps and Sets is not modelled: list    *)
(* payloads built from them are sets.                                       *)
(***************************************************************************)
EXTENDS Integers, Sequences, FiniteSets, TLC

(***************************************************************************)
(* Bounds of the model.                                                    *)
(***************************************************************************)
\* connections (socket ids) the server sees in the main specification
NumSessions == 2
\* connections in the capacity specification
NumCapSessions == 6
\* admin tokens crypto.randomUUID() can hand out
MaxTokens == 1
\* events (socket events, HTTP requests, timer ticks) the server handles in a run
MaxEvents == 5
\* events the server handles in a run of the long-run specification
MaxLongEvents == 7
\* events the server handles in a run of the blocking specification
MaxBlockEvents == 7
\* clicks, browser callbacks and requests in a run of the location specification
MaxShareEvents == 7
\* clicks, browser callbacks and requests in a run of the call specification
MaxCallEvents == 7
\* clicks and browser callbacks in a run of the two-page specification
MaxPeerEvents == 9
\* chat entries pushed to one room between two clears in the history specification
MaxAppended == 503

(***************************************************************************)
(* Program constants.                                                      *)
(***************************************************************************)
MAX_MESSAGES_PER_ROOM == 500
\* the membership cap the specification states (section 3); server.js has none
SpecRoomCap == 5

(***************************************************************************)
(* Values.                                                                 *)
(***************************************************************************)
SP == " "
\* the default room 'global' and its password 'global' (DEFAULT_ROOMS)
G == <<"g">>
\* another room name and password
L == <<"l">>
SECRET == <<"p">>
ALICE == <<"a">>
BOB == <<"b">>
HI == <<"h">>

\* a JS value that is a string, and one that is not (undefined, a number ...)
Str(v) == [t |-> "string", v |-> v]
NotStr == [t |-> "undefined", v |-> <<>>]

NullIcon == "null"
ICON1 == "i1"
ICON2 == "i2"
NoRoom == <<>>
NoLocation == "none"
LOC1 == "loc1"

Sessions == 1..NumSessions
CapSessions == 1..NumCapSessions
Tokens == 1..MaxTokens
ADMIN_PASSWORD == <<"0">>

(***************************************************************************)
(* String.prototype.trim on character sequences.                           *)
(***************************************************************************)
RECURSIVE TrimLeft(_)
TrimLeft(s) ==
  IF s = <<>> THEN <<>>
  ELSE IF Head(s) = SP THEN TrimLeft(Tail(s)) ELSE s

RECURSIVE TrimRight(_)
TrimRight(s) ==
  IF s = <<>> THEN <<>>
  ELSE IF s[Len(s)] = SP THEN TrimRight(SubSeq(s, 1, Len(s) - 1)) ELSE s

Trim(s) == TrimRight(TrimLeft(s))

sanitizeRoomName(name) == IF name.t = "string" THEN Trim(name.v) ELSE <<>>

(***************************************************************************)
(* Map helpers.                                                            *)
(***************************************************************************)
EmptyMap == [x \in {} |-> {}]
MapSet(m, k, v) == [x \in (DOMAIN m) \cup {k} |-> IF x = k THEN v ELSE m[x]]
MapDelete(m, k) == [x \in (DOMAIN m) \ {k} |-> m[x]]
MapHas(m, k) == k \in DOMAIN m

VARIABLES
  conn,              \* socket id -> "fresh" | "connected" | "gone"  (io.sockets.sockets)
  socketRooms,       \* socket id -> broadcast groups it is subscribed to (socket.join/leave)
  address,           \* socket id -> normalized source address (specification section 3)
  roomDirectory,     \* room name -> [password, blocked]
  roomSockets,       \* room name -> set of socket ids
  roomMessages,      \* room name -> sequence of chat entries
  appended,          \* room name -> every entry pushed since the room's creation or last clear
  adminSessions,     \* valid admin tokens
  usedTokens,        \* tokens crypto.randomUUID() has already returned
  userProfiles,      \* socket id -> [user, icon, room]
  callParticipants,  \* room name -> (socket id -> [id, user, icon])
  roomMembers,       \* room name -> (socket id -> [id, user, icon])
  handled,           \* events handled so far (bounds the run)
  event,             \* the last event handled: [op, sid, result]
  emitted,           \* what the last handler emitted, in order: [ev, group, to, data]
  response,          \* what the last handler answered its requester
  client,            \* socket id -> the variables of the page behind it (app.js)
  wire               \* socket id -> [up, down]: the events in flight on its connection

stateVars == <<conn, socketRooms, address, roomDirectory, roomSockets, roomMessages, appended,
               adminSessions, usedTokens, userProfiles, callParticipants, roomMembers>>
vars == <<conn, socketRooms, address, roomDirectory, roomSockets, roomMessages, appended,
          adminSessions, usedTokens, userProfiles, callParticipants, roomMembers,
          handled, event, emitted, response, client, wire>>

NoResponse == [op |-> "none"]
\* no asynchronous function of the page is waiting
NoTask == [fn |-> "none"]

\* the handler that ran, the socket it ran for (0: an HTTP request or the timer)
\* and the path it took: Passes, the name of the error, or Ignored
Handled(op, sid, result) == [op |-> op, sid |-> sid, result |-> result]
Passes == "ok"
Ignored == "ignored"
\* a call-participation join or update dropped by the membership test
NotMember == "not-member"

(***************************************************************************)
(* Socket.io delivery: who receives io.to(room).emit, socket.to(room).emit *)
(* and io.emit.                                                            *)
(***************************************************************************)
Connected(c) == {x \in DOMAIN c : c[x] = "connected"}
Subscribers(sr, room) == {x \in DOMAIN sr : room \in sr[x]}

\* an emit: the event, the broadcast group it names (NoRoom for socket.emit,
\* Everyone for io.emit), the sockets it reaches, and its payload
Everyone == <<"*">>
Event(ev, group, to, data) == [ev |-> ev, group |-> group, to |-> to, data |-> data]

\* Array.from(participants.values()) of a roster Map, [] when the Map is absent
RosterPayload(cp, room) ==
  IF MapHas(cp, room) THEN {cp[room][x] : x \in DOMAIN cp[room]} ELSE {}

\* the mutant of broadcastParticipants that always sends the empty list
broadcastParticipantsEmpty(sr, cp, room) ==
  Event("call-participants", room, Subscribers(sr, room), {})

\* broadcastParticipants(room)
broadcastParticipants(sr, cp, room) ==
  Event("call-participants", room, Subscribers(sr, room), RosterPayload(cp, room))

\* emitRoomUsers(room)
emitRoomUsers(sr, rm, room) ==
  Event("room-users", room, Subscribers(sr, room),
        IF MapHas(rm, room)
          THEN {[id |-> rm[room][x].id, user |-> rm[room][x].user] : x \in DOMAIN rm[room]}
          ELSE {})

\* the mutant of getPublicRooms that copies the password into the list
getPublicRoomsWithPassword(rd) == {[name |-> n, password |-> rd[n].password] : n \in DOMAIN rd}

\* getPublicRooms()
getPublicRooms(rd) == {[name |-> n] : n \in DOMAIN rd}

\* getAdminRooms()
getAdminRooms(rd) == {[name |-> n, password |-> rd[n].password] : n \in DOMAIN rd}

\* broadcastRooms()
broadcastRooms(c, rd) == Event("rooms-update", Everyone, Connected(c), getPublicRooms(rd))

(***************************************************************************)
(* ensureRoom(name): the three per-room collections, created when missing. *)
(***************************************************************************)
EnsureSockets(rs, name) == IF MapHas(rs, name) THEN rs ELSE MapSet(rs, name, {})
\* the mutant of EnsureMembers that creates no member Map
EnsureMembersForgotten(rm, name) == rm

EnsureMembers(rm, name) == IF MapHas(rm, name) THEN rm ELSE MapSet(rm, name, EmptyMap)
EnsureMessages(msgs, name) == IF MapHas(msgs, name) THEN msgs ELSE MapSet(msgs, name, <<>>)

(***************************************************************************)
(* Initial state: the maps after DEFAULT_ROOMS.forEach(createRoom), no      *)
(* connection, no admin session.                                            *)
(***************************************************************************)
AllSessions == Sessions \cup CapSessions

\* the page after its script has run: no room, the chat input and the call
\* buttons disabled by setInteractionEnabled(false), no call, no peer
ClientInit ==
  [joined |-> FALSE, ROOM |-> NoRoom, joinBtnDisabled |-> FALSE,
   inputDisabled |-> TRUE, sendDisabled |-> TRUE,
   startCallDisabled |-> TRUE, endCallDisabled |-> TRUE,
   isContinuousLocationSharing |-> FALSE, locationWatchId |-> FALSE,
   hasSentInitialContinuousLocationMessage |-> FALSE,
   toggleLocationShareDisabled |-> TRUE, leaveRoomBtnDisabled |-> TRUE,
   inCall |-> FALSE, localStream |-> FALSE, acquiringLocalStream |-> FALSE,
   latestCallParticipants |-> {}, peerConnections |-> EmptyMap, pending |-> NoTask]

WireInit == [up |-> <<>>, down |-> <<>>]

Init ==
  /\ client = [s \in Sessions |-> ClientInit]
  /\ wire = [s \in Sessions |-> WireInit]
  /\ conn = [s \in AllSessions |-> "fresh"]
  /\ socketRooms = [s \in AllSessions |-> {}]
  /\ address = [s \in AllSessions |-> "none"]
  /\ roomDirectory = MapSet(EmptyMap, G, [password |-> G, blocked |-> {}])
  /\ roomSockets = MapSet(EmptyMap, G, {})
  /\ roomMembers = MapSet(EmptyMap, G, EmptyMap)
  /\ roomMessages = MapSet(EmptyMap, G, <<>>)
  /\ appended = MapSet(EmptyMap, G, <<>>)
  /\ adminSessions = {}
  /\ usedTokens = {}
  /\ userProfiles = EmptyMap
  /\ callParticipants = EmptyMap
  /\ handled = 0
  /\ event = Handled("listen", 0, Passes)
  /\ emitted = <<>>
  /\ response = NoResponse

(***************************************************************************)
(* io.on('connection'): a new socket with a fresh id.                      *)
(***************************************************************************)
Connect(s, a) ==
  /\ conn[s] = "fresh"
  /\ conn' = [conn EXCEPT ![s] = "connected"]
  /\ address' = [address EXCEPT ![s] = a]
  /\ event' = Handled("connection", s, Passes)
  /\ emitted' = <<>>
  /\ response' = NoResponse
  /\ UNCHANGED <<socketRooms, roomDirectory, roomSockets, roomMessages, appended, adminSessions,
                 usedTokens, userProfiles, callParticipants, roomMembers>>

(***************************************************************************)
(* socket.on('join').  The error messages of the handler, by the names the *)
(* specification gives them.                                               *)
(***************************************************************************)
ErrMissingRoom == "MissingRoom"      \* 'ルーム名を入力してください。'
ErrRoomNotFound == "RoomNotFound"    \* '指定されたルームは存在しません。'
ErrWrongPassword == "WrongPassword"  \* 'パスワードが違います。'
ErrMissingName == "MissingName"      \* 'ユーザー名を入力してください。'
ErrJoinFailed == "JoinFailed"        \* 'ルームへの参加に失敗しました。'
ErrBlocked == "Blocked"              \* specification 4.2; no such answer in server.js
ErrRoomFull == "RoomFull"            \* specification 4.2; no such answer in server.js
JoinPasses == Passes

JoinRawName(p) == IF p.user.t = "string" THEN Trim(p.user.v) ELSE <<>>
JoinIcon(p) == IF p.hasIcon /\ p.icon # NullIcon THEN p.icon ELSE NullIcon

\* the checks of the handler, in its order; JoinPasses when all pass
JoinCheck(p) ==
  LET roomName == sanitizeRoomName(p.room) IN
  IF roomName = <<>> THEN ErrMissingRoom
  ELSE IF ~MapHas(roomDirectory, roomName) THEN ErrRoomNotFound
  ELSE IF ~(p.password.t = "string" /\ roomDirectory[roomName].password = p.password.v)
    THEN ErrWrongPassword
  ELSE IF JoinRawName(p) = <<>> THEN ErrMissingName
  ELSE JoinPasses

\* the mutant of JoinAnswer that calls the callback on success only
JoinAnswerOnSuccess(s, p, ans) == IF p.cb /\ ans.ok THEN ans ELSE NoResponse

\* if (callback) callback(ans)
JoinAnswer(s, p, ans) == IF p.cb THEN ans ELSE NoResponse

\* the mutant of JoinReject that has stored the profile before it rejects
JoinRejectAfterProfile(s, p, err) ==
  /\ response' = JoinAnswer(s, p, [op |-> "join", sid |-> s, ok |-> FALSE, error |-> err])
  /\ emitted' = <<>>
  /\ userProfiles' = MapSet(userProfiles, s,
        [user |-> JoinRawName(p), icon |-> JoinIcon(p), room |-> sanitizeRoomName(p.room)])
  /\ UNCHANGED <<conn, socketRooms, address, roomDirectory, roomSockets, roomMessages, appended,
                 adminSessions, usedTokens, callParticipants, roomMembers>>

\* a rejected join: the callback, if any, gets the error; nothing else happens
JoinReject(s, p, err) ==
  /\ response' = JoinAnswer(s, p, [op |-> "join", sid |-> s, ok |-> FALSE, error |-> err])
  /\ emitted' = <<>>
  /\ UNCHANGED stateVars

\* the mutant of JoinMemberEntry that keeps an entry the session already has
JoinMemberEntryKeepOld(members, s, user, icon) ==
  IF MapHas(members, s) THEN members
  ELSE MapSet(members, s, [id |-> s, user |-> user, icon |-> icon])

\* members.set(socket.id, { id, user, icon })
JoinMemberEntry(members, s, user, icon) ==
  MapSet(members, s, [id |-> s, user |-> user, icon |-> icon])

\* the mutant of JoinReplay that reads the history of the default room
JoinReplayDefaultRoom(msgs, roomName) == IF MapHas(msgs, G) THEN msgs[G] ELSE <<>>

\* const history = roomMessages.get(roomName) || []
JoinReplay(msgs, roomName) == IF MapHas(msgs, roomName) THEN msgs[roomName] ELSE <<>>

\* the mutant of JoinNoticeTo that sends the notice to the whole room
JoinNoticeToAll(sr, roomName, s) == Subscribers(sr, roomName)

\* socket.to(roomName): the sockets of the room's group but the sender
JoinNoticeTo(sr, roomName, s) == Subscribers(sr, roomName) \ {s}

JoinAccept(s, p) ==
  LET roomName == sanitizeRoomName(p.room)
      rawName == JoinRawName(p)
      icon == JoinIcon(p)
      rs1 == EnsureSockets(roomSockets, roomName)
      rm1 == EnsureMembers(roomMembers, roomName)
      msgs1 == EnsureMessages(roomMessages, roomName)
      rs2 == MapSet(rs1, roomName, rs1[roomName] \cup {s})
      sr2 == [socketRooms EXCEPT ![s] = @ \cup {roomName}]
      rm2 == MapSet(rm1, roomName, JoinMemberEntry(rm1[roomName], s, rawName, icon))
  IN
  /\ roomSockets' = rs2
  /\ socketRooms' = sr2
  /\ userProfiles' = MapSet(userProfiles, s, [user |-> rawName, icon |-> icon, room |-> roomName])
  /\ roomMembers' = rm2
  /\ roomMessages' = msgs1
  /\ appended' = EnsureMessages(appended, roomName)
  /\ emitted' = << Event("system", roomName, JoinNoticeTo(sr2, roomName, s),
                         [kind |-> "joined", user |-> rawName, room |-> roomName]),
                   Event("call-participants", NoRoom, {s}, RosterPayload(callParticipants, roomName)),
                   emitRoomUsers(sr2, rm2, roomName) >>
  /\ response' = JoinAnswer(s, p, [op |-> "join", sid |-> s, ok |-> TRUE, room |-> roomName,
                                   messages |-> JoinReplay(msgs1, roomName)])
  /\ UNCHANGED <<conn, address, roomDirectory, adminSessions, usedTokens, callParticipants>>

Join(s, p) ==
  /\ conn[s] = "connected"
  /\ event' = Handled("join", s, JoinCheck(p))
  /\ IF JoinCheck(p) # JoinPasses
       THEN JoinReject(s, p, JoinCheck(p))
       ELSE JoinAccept(s, p)

(***************************************************************************)
(* socket.on('disconnect').  Socket.io has removed the socket from every    *)
(* broadcast group and from io.sockets.sockets before the handler runs.     *)
(***************************************************************************)
\* the mutant of RemoveParticipant that keeps the entry of an emptied roster
RemoveParticipantKeepEmpty(cp, room, s) ==
  IF MapHas(cp, room) /\ MapHas(cp[room], s)
    THEN MapSet(cp, room, MapDelete(cp[room], s))
    ELSE cp

\* participants.delete(id); the roster's entry goes when it becomes empty
RemoveParticipant(cp, room, s) ==
  IF MapHas(cp, room) /\ MapHas(cp[room], s)
    THEN IF DOMAIN cp[room] = {s} THEN MapDelete(cp, room)
         ELSE MapSet(cp, room, MapDelete(cp[room], s))
    ELSE cp

DisplayName(profile, s) == IF profile.user # <<>> THEN profile.user ELSE <<ToString(s)>>

\* the mutant of DisconnectHasRoom that only looks for a profile
DisconnectHasRoomAnyProfile(s) == MapHas(userProfiles, s)

\* const room = profile?.room; if (room)
DisconnectHasRoom(s) == MapHas(userProfiles, s) /\ userProfiles[s].room # NoRoom

Disconnect(s) ==
  /\ conn[s] = "connected"
  /\ conn' = [conn EXCEPT ![s] = "gone"]
  /\ event' = Handled("disconnect", s, Passes)
  /\ LET sr1 == [socketRooms EXCEPT ![s] = {}]
         hasRoom == DisconnectHasRoom(s)
         room == IF hasRoom THEN userProfiles[s].room ELSE NoRoom
         wasInCall == hasRoom /\ MapHas(callParticipants, room) /\ MapHas(callParticipants[room], s)
         wasMember == hasRoom /\ MapHas(roomMembers, room) /\ MapHas(roomMembers[room], s)
         cp1 == IF hasRoom THEN RemoveParticipant(callParticipants, room, s) ELSE callParticipants
         rm1 == IF wasMember THEN MapSet(roomMembers, room, MapDelete(roomMembers[room], s))
                ELSE roomMembers
     IN
     /\ socketRooms' = sr1
     /\ roomSockets' = IF hasRoom /\ MapHas(roomSockets, room)
                         THEN MapSet(roomSockets, room, roomSockets[room] \ {s})
                         ELSE roomSockets
     /\ callParticipants' = cp1
     /\ roomMembers' = rm1
     /\ emitted' = (IF hasRoom
                      THEN << Event("system", room, Subscribers(sr1, room) \ {s},
                                    [kind |-> "left", user |-> DisplayName(userProfiles[s], s),
                                     room |-> room]) >>
                      ELSE <<>>)
                   \o (IF wasInCall THEN << broadcastParticipants(sr1, cp1, room) >> ELSE <<>>)
                   \o (IF wasMember THEN << emitRoomUsers(sr1, rm1, room) >> ELSE <<>>)
  /\ userProfiles' = MapDelete(userProfiles, s)
  /\ response' = NoResponse
  /\ UNCHANGED <<address, roomDirectory, roomMessages, appended, adminSessions, usedTokens>>


(***************************************************************************)
(* createRoom(name, password) and deleteRoom(name).                        *)
(***************************************************************************)
ErrInvalidName == "InvalidName"      \* 'Room name is required.'
ErrAlreadyExists == "AlreadyExists"  \* 'Room already exists.'
ErrNotFound == "NotFound"            \* 'Room not found.'
ErrUnauthenticated == "Unauthenticated"  \* '認証が必要です。'
ErrLoginPassword == "LoginPassword"  \* 'パスワードが違います。' (admin login)
\* the mutant of createRoomCheck that lets an existing name through
createRoomCheckNoDuplicate(name) ==
  IF sanitizeRoomName(name) = <<>> THEN ErrInvalidName ELSE Passes

\* the two throws of createRoom
createRoomCheck(name) ==
  IF sanitizeRoomName(name) = <<>> THEN ErrInvalidName
  ELSE IF MapHas(roomDirectory, sanitizeRoomName(name)) THEN ErrAlreadyExists
  ELSE Passes

\* the state part of a createRoom that passed its checks
createRoom(name, password) ==
  LET roomName == sanitizeRoomName(name)
      rd1 == MapSet(roomDirectory, roomName,
                    [password |-> IF password.t = "string" THEN password.v ELSE <<>>,
                     blocked |-> {}])
  IN
  /\ roomDirectory' = rd1
  /\ roomSockets' = EnsureSockets(roomSockets, roomName)
  /\ roomMembers' = EnsureMembers(roomMembers, roomName)
  /\ roomMessages' = EnsureMessages(roomMessages, roomName)
  /\ appended' = EnsureMessages(appended, roomName)
  /\ emitted' = << broadcastRooms(conn, rd1) >>
  /\ UNCHANGED <<conn, socketRooms, address, userProfiles, callParticipants>>

deleteRoomCheck(name) ==
  IF MapHas(roomDirectory, sanitizeRoomName(name)) THEN Passes ELSE ErrNotFound

\* the events of a forEach over a set of socket ids, smallest id first
RECURSIVE EachSocket(_, _, _)
EachSocket(ids, ev, data) ==
  IF ids = {} THEN <<>>
  ELSE LET m == CHOOSE x \in ids : \A y \in ids : x <= y
       IN << Event(ev, NoRoom, {m}, data) >> \o EachSocket(ids \ {m}, ev, data)

\* the mutant of PurgeCallRoster that forgets callParticipants.delete(roomName)
PurgeCallRosterForgotten(cp, roomName) == cp

\* callParticipants.delete(roomName)
PurgeCallRoster(cp, roomName) == MapDelete(cp, roomName)

\* the mutant of deleteRoomClients that finds no client to notify
deleteRoomClientsNone(sockets) == {}

\* the ids for which io.sockets.sockets.get(socketId) finds a client
deleteRoomClients(sockets) == sockets \cap Connected(conn)

\* the state part of a deleteRoom that passed its check
deleteRoom(name) ==
  LET roomName == sanitizeRoomName(name)
      hasSockets == MapHas(roomSockets, roomName)
      sockets == IF hasSockets THEN roomSockets[roomName] ELSE {}
      clients == deleteRoomClients(sockets)
      rd1 == MapDelete(roomDirectory, roomName)
  IN
  /\ socketRooms' = [x \in DOMAIN socketRooms |->
                       IF x \in clients THEN socketRooms[x] \ {roomName} ELSE socketRooms[x]]
  /\ userProfiles' = [x \in DOMAIN userProfiles |->
                        IF x \in sockets
                          THEN [userProfiles[x] EXCEPT !.room = NoRoom]
                          ELSE userProfiles[x]]
  /\ roomSockets' = MapDelete(roomSockets, roomName)
  /\ roomDirectory' = rd1
  /\ roomMessages' = MapDelete(roomMessages, roomName)
  /\ appended' = MapDelete(appended, roomName)
  /\ roomMembers' = MapDelete(roomMembers, roomName)
  /\ callParticipants' = PurgeCallRoster(callParticipants, roomName)
  /\ emitted' = EachSocket(clients, "room-deleted", [room |-> roomName])
                \o << broadcastRooms(conn, rd1) >>
  /\ UNCHANGED <<conn, address>>

(***************************************************************************)
(* The HTTP routes.                                                        *)
(***************************************************************************)
\* the mutant of authenticateAdmin that accepts any token that is present
authenticateAdminAnyToken(token) == token # 0

\* authenticateAdmin: token is the x-admin-token header, 0 when it is absent
authenticateAdmin(token) == token # 0 /\ token \in adminSessions

\* res.status(status).json({ ok, ... }); op names the route in the model only
Http(op, status, ok, body) == [op |-> "http", status |-> status, ok |-> ok, body |-> body]

Rejected401(op) ==
  /\ event' = Handled(op, 0, ErrUnauthenticated)
  /\ response' = Http(op, 401, FALSE, ErrUnauthenticated)
  /\ emitted' = <<>>
  /\ UNCHANGED stateVars

Rejected400(op, err) ==
  /\ event' = Handled(op, 0, err)
  /\ response' = Http(op, 400, FALSE, err)
  /\ emitted' = <<>>
  /\ UNCHANGED stateVars

\* GET /api/rooms
GetRooms ==
  /\ event' = Handled("GET /api/rooms", 0, Passes)
  /\ response' = Http("GET /api/rooms", 200, TRUE, getPublicRooms(roomDirectory))
  /\ emitted' = <<>>
  /\ UNCHANGED stateVars

\* POST /api/rooms
PostRooms(name, password) ==
  IF createRoomCheck(name) # Passes
    THEN Rejected400("POST /api/rooms", createRoomCheck(name))
    ELSE /\ createRoom(name, password)
         /\ event' = Handled("POST /api/rooms", 0, Passes)
         /\ response' = Http("POST /api/rooms", 201, TRUE,
                             [room |-> sanitizeRoomName(name),
                              rooms |-> getPublicRooms(roomDirectory')])
         /\ UNCHANGED <<adminSessions, usedTokens>>

\* POST /api/admin/login
AdminLogin(password) ==
  IF ~(password.t = "string" /\ password.v = ADMIN_PASSWORD)
    THEN /\ response' = Http("POST /api/admin/login", 401, FALSE, ErrLoginPassword)
         /\ event' = Handled("POST /api/admin/login", 0, ErrLoginPassword)
         /\ emitted' = <<>>
         /\ UNCHANGED stateVars
    ELSE \E token \in Tokens \ usedTokens :
         /\ adminSessions' = adminSessions \cup {token}
         /\ usedTokens' = usedTokens \cup {token}
         /\ event' = Handled("POST /api/admin/login", 0, Passes)
         /\ response' = Http("POST /api/admin/login", 200, TRUE,
                             [token |-> token, rooms |-> getAdminRooms(roomDirectory)])
         /\ emitted' = <<>>
         /\ UNCHANGED <<conn, socketRooms, address, roomDirectory, roomSockets, roomMessages, appended,
                        userProfiles, callParticipants, roomMembers>>

\* POST /api/admin/logout
AdminLogout(token) ==
  IF ~authenticateAdmin(token)
    THEN Rejected401("POST /api/admin/logout")
    ELSE /\ adminSessions' = adminSessions \ {token}
         /\ event' = Handled("POST /api/admin/logout", 0, Passes)
         /\ response' = Http("POST /api/admin/logout", 200, TRUE, <<>>)
         /\ emitted' = <<>>
         /\ UNCHANGED <<conn, socketRooms, address, roomDirectory, roomSockets, roomMessages, appended,
                        usedTokens, userProfiles, callParticipants, roomMembers>>

\* GET /api/admin/rooms
AdminGetRooms(token) ==
  IF ~authenticateAdmin(token)
    THEN Rejected401("GET /api/admin/rooms")
    ELSE /\ event' = Handled("GET /api/admin/rooms", 0, Passes)
         /\ response' = Http("GET /api/admin/rooms", 200, TRUE, getAdminRooms(roomDirectory))
         /\ emitted' = <<>>
         /\ UNCHANGED stateVars

\* POST /api/admin/rooms
AdminPostRooms(token, name, password) ==
  IF ~authenticateAdmin(token)
    THEN Rejected401("POST /api/admin/rooms")
    ELSE IF createRoomCheck(name) # Passes
      THEN Rejected400("POST /api/admin/rooms", createRoomCheck(name))
      ELSE /\ createRoom(name, password)
           /\ event' = Handled("POST /api/admin/rooms", 0, Passes)
           /\ response' = Http("POST /api/admin/rooms", 201, TRUE,
                               [room |-> sanitizeRoomName(name),
                                rooms |-> getAdminRooms(roomDirectory')])
           /\ UNCHANGED <<adminSessions, usedTokens>>

\* DELETE /api/admin/rooms/:name
AdminDeleteRoom(token, name) ==
  IF ~authenticateAdmin(token)
    THEN Rejected401("DELETE /api/admin/rooms")
    ELSE IF deleteRoomCheck(name) # Passes
      THEN Rejected400("DELETE /api/admin/rooms", deleteRoomCheck(name))
      ELSE /\ deleteRoom(name)
           /\ event' = Handled("DELETE /api/admin/rooms", 0, Passes)
           /\ response' = Http("DELETE /api/admin/rooms", 200, TRUE,
                               [rooms |-> getAdminRooms(roomDirectory')])
           /\ UNCHANGED <<adminSessions, usedTokens>>


(***************************************************************************)
(* socket.on('message').                                                   *)
(***************************************************************************)
\* the mutant of AppendHistory that puts the new entry in front
AppendHistoryFront(history, payload) ==
  LET h == <<payload>> \o history IN
  IF Len(h) > MAX_MESSAGES_PER_ROOM
    THEN SubSeq(h, Len(h) - MAX_MESSAGES_PER_ROOM + 1, Len(h))
    ELSE h

\* the mutant of AppendHistory whose splice cuts the tail instead of the head
AppendHistoryKeepOldest(history, payload) ==
  LET h == Append(history, payload) IN
  IF Len(h) > MAX_MESSAGES_PER_ROOM THEN SubSeq(h, 1, MAX_MESSAGES_PER_ROOM) ELSE h

\* history.push(payload), then the splice that keeps the newest entries
AppendHistory(history, payload) ==
  LET h == Append(history, payload) IN
  IF Len(h) > MAX_MESSAGES_PER_ROOM
    THEN SubSeq(h, Len(h) - MAX_MESSAGES_PER_ROOM + 1, Len(h))
    ELSE h

\* the mutant of InOwnRoom that only looks for a profile
InOwnRoomUnchecked(s) == MapHas(userProfiles, s)

\* the session has a current room and is in that room's socket-id set
InOwnRoom(s) ==
  /\ MapHas(userProfiles, s)
  /\ userProfiles[s].room # NoRoom
  /\ MapHas(roomSockets, userProfiles[s].room)
  /\ s \in roomSockets[userProfiles[s].room]

\* the mutant of MessageText that does not trim
MessageTextUntrimmed(msg) == IF msg.text.t = "string" THEN msg.text.v ELSE <<>>

\* typeof msg.text === 'string' ? msg.text.trim() : ''
MessageText(msg) == IF msg.text.t = "string" THEN Trim(msg.text.v) ELSE <<>>

Message(s, msg) ==
  /\ conn[s] = "connected"
  /\ response' = NoResponse
  /\ event' = Handled("message", s,
                      IF ~InOwnRoom(s) THEN Ignored
                      ELSE IF MessageText(msg) = <<>> /\ msg.location = NoLocation
                        THEN "dropped" ELSE Passes)
  /\ IF ~InOwnRoom(s)
       THEN /\ emitted' = <<>>
            /\ UNCHANGED stateVars
       ELSE
         LET profile == userProfiles[s]
             room == profile.room
             text == MessageText(msg)
             adoptIcon == msg.icon # NullIcon /\ profile.icon = NullIcon
             icon == IF adoptIcon THEN msg.icon ELSE profile.icon
             up1 == IF adoptIcon
                      THEN MapSet(userProfiles, s, [profile EXCEPT !.icon = msg.icon])
                      ELSE userProfiles
             rm1 == IF adoptIcon /\ MapHas(roomMembers, room) /\ MapHas(roomMembers[room], s)
                      THEN MapSet(roomMembers, room,
                                  MapSet(roomMembers[room], s,
                                         [roomMembers[room][s] EXCEPT !.icon = msg.icon]))
                      ELSE roomMembers
             payload == [user |-> profile.user, text |-> text, icon |-> icon,
                         location |-> msg.location]
             history == IF MapHas(roomMessages, room) THEN roomMessages[room] ELSE <<>>
         IN
         /\ userProfiles' = up1
         /\ roomMembers' = rm1
         /\ IF text = <<>> /\ msg.location = NoLocation
              THEN /\ emitted' = <<>>
                   /\ UNCHANGED <<roomMessages, appended>>
              ELSE /\ roomMessages' = MapSet(roomMessages, room, AppendHistory(history, payload))
                   /\ appended' = MapSet(appended, room,
                                          Append(IF MapHas(appended, room) THEN appended[room]
                                                 ELSE <<>>, payload))
                   /\ emitted' = << Event("message", room, Subscribers(socketRooms, room), payload) >>
         /\ UNCHANGED <<conn, socketRooms, address, roomDirectory, roomSockets,
                        adminSessions, usedTokens, callParticipants>>

(***************************************************************************)
(* socket.on('webrtc'): forwarded to the other sockets of the target group. *)
(***************************************************************************)
Webrtc(s, room) ==
  /\ conn[s] = "connected"
  /\ response' = NoResponse
  /\ LET profileRoom == IF MapHas(userProfiles, s) THEN userProfiles[s].room ELSE NoRoom
         targetRoom == IF sanitizeRoomName(room) # <<>> THEN sanitizeRoomName(room)
                       ELSE profileRoom
     IN /\ event' = Handled("webrtc", s, IF targetRoom = NoRoom THEN Ignored ELSE Passes)
        /\ emitted' = IF targetRoom = NoRoom THEN <<>>
                   ELSE << Event("webrtc", targetRoom, Subscribers(socketRooms, targetRoom) \ {s},
                                 [sender |-> s]) >>
  /\ UNCHANGED stateVars

(***************************************************************************)
(* socket.on('call-participation').                                        *)
(***************************************************************************)
\* the mutant of CallRoomHasSocket that lets any session through
CallRoomHasSocketAlways(room, s) == TRUE

\* sockets && sockets.has(socket.id)
CallRoomHasSocket(room, s) == MapHas(roomSockets, room) /\ s \in roomSockets[room]

CallParticipation(s, d) ==
  /\ conn[s] = "connected"
  /\ response' = NoResponse
  /\ LET hasProfile == MapHas(userProfiles, s) /\ userProfiles[s].room # NoRoom
         profile == userProfiles[s]
         room == IF sanitizeRoomName(d.room) # <<>> THEN sanitizeRoomName(d.room)
                 ELSE profile.room
     IN
     IF \/ d.action = ""
        \/ ~hasProfile
        \/ ~MapHas(roomDirectory, room)
       THEN /\ event' = Handled("call-participation", s, Ignored)
            /\ emitted' = <<>>
            /\ UNCHANGED stateVars
     ELSE IF ~CallRoomHasSocket(room, s)
       THEN /\ event' = Handled("call-participation", s,
                                IF d.action \in {"join", "update"} THEN NotMember
                                ELSE Ignored)
            /\ emitted' = <<>>
            /\ UNCHANGED stateVars
       ELSE
         LET participants == IF MapHas(callParticipants, room) THEN callParticipants[room]
                             ELSE EmptyMap
         IN
         IF d.action = "leave" THEN
           LET cp1 == RemoveParticipant(callParticipants, room, s) IN
           /\ callParticipants' = cp1
           /\ event' = Handled("call-participation", s, Passes)
           /\ emitted' = IF MapHas(participants, s)
                           THEN << broadcastParticipants(socketRooms, cp1, room) >>
                           ELSE <<>>
           /\ UNCHANGED <<conn, socketRooms, address, roomDirectory, roomSockets, roomMessages, appended,
                          adminSessions, usedTokens, userProfiles, roomMembers>>
         ELSE IF d.action \in {"join", "update"} THEN
           LET nameFromData == IF d.user.t = "string" THEN Trim(d.user.v) ELSE <<>>
               participantUser == IF nameFromData # <<>> THEN nameFromData
                                  ELSE DisplayName(profile, s)
               participantIcon == IF d.hasIcon THEN d.icon ELSE profile.icon
               info == [id |-> s, user |-> participantUser, icon |-> participantIcon]
               cp1 == MapSet(callParticipants, room, MapSet(participants, s, info))
               isMember == MapHas(roomMembers, room) /\ MapHas(roomMembers[room], s)
               rm1 == IF isMember THEN MapSet(roomMembers, room, MapSet(roomMembers[room], s, info))
                      ELSE roomMembers
           IN
           /\ callParticipants' = cp1
           /\ event' = Handled("call-participation", s, Passes)
           /\ userProfiles' = MapSet(userProfiles, s,
                                     [user |-> participantUser, icon |-> participantIcon,
                                      room |-> room])
           /\ roomMembers' = rm1
           /\ emitted' = (IF isMember THEN << emitRoomUsers(socketRooms, rm1, room) >> ELSE <<>>)
                         \o << broadcastParticipants(socketRooms, cp1, room) >>
           /\ UNCHANGED <<conn, socketRooms, address, roomDirectory, roomSockets, roomMessages, appended,
                          adminSessions, usedTokens>>
         ELSE
           /\ event' = Handled("call-participation", s, Ignored)
           /\ emitted' = <<>>
           /\ UNCHANGED stateVars

(***************************************************************************)
(* The setInterval callback that clears every non-empty history.           *)
(***************************************************************************)
RECURSIVE EachRoom(_, _)
EachRoom(rooms, sr) ==
  IF rooms = {} THEN <<>>
  ELSE LET r == CHOOSE x \in rooms : TRUE
       IN << Event("clear-history", r, Subscribers(sr, r), [room |-> r]) >>
          \o EachRoom(rooms \ {r}, sr)

\* the mutant of ClearHistoryRooms that takes every room
ClearHistoryRoomsAll(msgs) == DOMAIN msgs

\* the rooms that pass if (messages.length > 0)
ClearHistoryRooms(msgs) == {r \in DOMAIN msgs : Len(msgs[r]) > 0}

ClearHistory ==
  LET nonEmpty == ClearHistoryRooms(roomMessages) IN
  /\ roomMessages' = [r \in DOMAIN roomMessages |-> <<>>]
  /\ appended' = [r \in DOMAIN appended |-> <<>>]
  /\ event' = Handled("clear-history timer", 0, Passes)
  /\ emitted' = EachRoom(nonEmpty, socketRooms)
  /\ response' = NoResponse
  /\ UNCHANGED <<conn, socketRooms, address, roomDirectory, roomSockets, adminSessions,
                 usedTokens, userProfiles, callParticipants, roomMembers>>


(***************************************************************************)
(* blockAddress / unblockAddress (specification 4.1).  server.js has no     *)
(* such route; the client calls /api/admin/rooms/:name/block-ip.  Modelled  *)
(* from the specification: the address joins the room's blocklist and every *)
(* member of the room at that address is evicted and told 'room-blocked'.   *)
(***************************************************************************)
IP1 == "ip1"
IP2 == "ip2"
BadAddress == "not-an-ip"
ErrInvalidAddress == "InvalidAddress"
ErrNotBlocked == "NotBlocked"

IsValidAddress(a) == a \in {IP1, IP2}

\* the mutant of BlockEvicted that evicts every member of the room
BlockEvictedAll(members, a) == members

\* the members of the room whose source address is the blocked one
BlockEvicted(members, a) == {x \in members : address[x] = a}

BlockAddress(token, name, a) ==
  LET roomName == sanitizeRoomName(name) IN
  IF ~authenticateAdmin(token) THEN Rejected401("POST block-ip")
  ELSE IF ~MapHas(roomDirectory, roomName) THEN Rejected400("POST block-ip", ErrNotFound)
  ELSE IF ~IsValidAddress(a) THEN Rejected400("POST block-ip", ErrInvalidAddress)
  ELSE
    LET members == IF MapHas(roomSockets, roomName) THEN roomSockets[roomName] ELSE {}
        evicted == BlockEvicted(members, a)
        sr1 == [x \in DOMAIN socketRooms |->
                  IF x \in evicted THEN socketRooms[x] \ {roomName} ELSE socketRooms[x]]
        roster == IF MapHas(callParticipants, roomName) THEN callParticipants[roomName]
                  ELSE EmptyMap
        roster1 == [x \in (DOMAIN roster) \ evicted |-> roster[x]]
        cp1 == IF ~MapHas(callParticipants, roomName) THEN callParticipants
               ELSE IF DOMAIN roster1 = {} THEN MapDelete(callParticipants, roomName)
               ELSE MapSet(callParticipants, roomName, roster1)
        rm1 == IF MapHas(roomMembers, roomName)
                 THEN MapSet(roomMembers, roomName,
                             [x \in (DOMAIN roomMembers[roomName]) \ evicted |->
                                roomMembers[roomName][x]])
                 ELSE roomMembers
    IN
    /\ roomDirectory' = MapSet(roomDirectory, roomName,
                               [roomDirectory[roomName] EXCEPT !.blocked = @ \cup {a}])
    /\ roomSockets' = IF MapHas(roomSockets, roomName)
                        THEN MapSet(roomSockets, roomName, members \ evicted)
                        ELSE roomSockets
    /\ socketRooms' = sr1
    /\ callParticipants' = cp1
    /\ roomMembers' = rm1
    /\ userProfiles' = [x \in DOMAIN userProfiles |->
                          IF x \in evicted /\ userProfiles[x].room = roomName
                            THEN [userProfiles[x] EXCEPT !.room = NoRoom]
                            ELSE userProfiles[x]]
    /\ emitted' = EachSocket(evicted \cap Connected(conn), "room-blocked", [room |-> roomName])
                  \o (IF evicted # {}
                        THEN << broadcastParticipants(sr1, cp1, roomName),
                                emitRoomUsers(sr1, rm1, roomName) >>
                        ELSE <<>>)
    /\ response' = Http("POST block-ip", 200, TRUE, [room |-> roomName])
    /\ event' = Handled("POST block-ip", 0, Passes)
    /\ UNCHANGED <<conn, address, roomMessages, appended, adminSessions, usedTokens>>

UnblockAddress(token, name, a) ==
  LET roomName == sanitizeRoomName(name) IN
  IF ~authenticateAdmin(token) THEN Rejected401("DELETE block-ip")
  ELSE IF ~MapHas(roomDirectory, roomName) THEN Rejected400("DELETE block-ip", ErrNotFound)
  ELSE IF ~IsValidAddress(a) THEN Rejected400("DELETE block-ip", ErrInvalidAddress)
  ELSE IF a \notin roomDirectory[roomName].blocked
    THEN Rejected400("DELETE block-ip", ErrNotBlocked)
  ELSE
    /\ roomDirectory' = MapSet(roomDirectory, roomName,
                               [roomDirectory[roomName] EXCEPT !.blocked = @ \ {a}])
    /\ response' = Http("DELETE block-ip", 200, TRUE, [room |-> roomName])
    /\ event' = Handled("DELETE block-ip", 0, Passes)
    /\ emitted' = <<>>
    /\ UNCHANGED <<conn, socketRooms, address, roomSockets, roomMessages, appended, adminSessions,
                   usedTokens, userProfiles, callParticipants, roomMembers>>

(***************************************************************************)
(* 'leave-room' and 'profile-update' (specification 4.2 and 6).  The client *)
(* emits both with a callback; server.js has no handler for either.         *)
(* Modelled from the specification.                                         *)
(***************************************************************************)
ErrNotJoined == "NotJoined"

\* the answer of a request/response event, when the client passed a callback
Answer(cb, ans) == IF cb THEN ans ELSE NoResponse

\* the mutant of LeaveRoster that keeps the session in the call roster
LeaveRosterKept(cp, room, s) == cp

\* teardown of the call roster entry of a session that leaves its room
LeaveRoster(cp, room, s) == RemoveParticipant(cp, room, s)

\* the mutant of LeaveNotJoined that clears the profile of the requester
LeaveNotJoinedClearing(s, cb) ==
  /\ event' = Handled("leave-room", s, ErrNotJoined)
  /\ response' = Answer(cb, [op |-> "leave-room", sid |-> s, ok |-> FALSE,
                             error |-> ErrNotJoined])
  /\ emitted' = <<>>
  /\ userProfiles' = MapDelete(userProfiles, s)
  /\ UNCHANGED <<conn, socketRooms, address, roomDirectory, roomSockets, roomMessages, appended,
                 adminSessions, usedTokens, callParticipants, roomMembers>>

\* leave by a session that has no current room
LeaveNotJoined(s, cb) ==
  /\ event' = Handled("leave-room", s, ErrNotJoined)
  /\ response' = Answer(cb, [op |-> "leave-room", sid |-> s, ok |-> FALSE,
                             error |-> ErrNotJoined])
  /\ emitted' = <<>>
  /\ UNCHANGED stateVars

LeaveRoom(s, cb) ==
  /\ conn[s] = "connected"
  /\ IF ~(MapHas(userProfiles, s) /\ userProfiles[s].room # NoRoom)
       THEN LeaveNotJoined(s, cb)
       ELSE
         LET profile == userProfiles[s]
             room == profile.room
             sr1 == [socketRooms EXCEPT ![s] = @ \ {room}]
             wasInCall == MapHas(callParticipants, room) /\ MapHas(callParticipants[room], s)
             cp1 == LeaveRoster(callParticipants, room, s)
             rm1 == IF MapHas(roomMembers, room)
                      THEN MapSet(roomMembers, room,
                                  [x \in (DOMAIN roomMembers[room]) \ {s} |-> roomMembers[room][x]])
                      ELSE roomMembers
         IN
         /\ roomSockets' = IF MapHas(roomSockets, room)
                             THEN MapSet(roomSockets, room, roomSockets[room] \ {s})
                             ELSE roomSockets
         /\ roomMembers' = rm1
         /\ callParticipants' = cp1
         /\ socketRooms' = sr1
         /\ userProfiles' = MapSet(userProfiles, s, [profile EXCEPT !.room = NoRoom])
         /\ emitted' = (IF wasInCall THEN << broadcastParticipants(sr1, cp1, room) >> ELSE <<>>)
                       \o << Event("system", room, Subscribers(sr1, room),
                                   [kind |-> "left", user |-> DisplayName(profile, s),
                                    room |-> room]) >>
         /\ event' = Handled("leave-room", s, Passes)
         /\ response' = Answer(cb, [op |-> "leave-room", sid |-> s, ok |-> TRUE, room |-> room])
         /\ UNCHANGED <<conn, address, roomDirectory, roomMessages, appended, adminSessions,
                        usedTokens>>

\* the mutant of ProfileUpdateName that keeps the stored name
ProfileUpdateNameKept(u, profile) == profile.user

\* the display name after the update: the trimmed name of the request when it
\* has one, the stored name otherwise
ProfileUpdateName(u, profile) ==
  IF u.user.t = "string" /\ Trim(u.user.v) # <<>> THEN Trim(u.user.v) ELSE profile.user

\* profile-update {user?, icon?}: the stored profile and the membership entry
\* of the current room take the new name / avatar
ProfileUpdate(s, u, cb) ==
  /\ conn[s] = "connected"
  /\ IF ~(MapHas(userProfiles, s) /\ userProfiles[s].room # NoRoom)
       THEN /\ event' = Handled("profile-update", s, ErrNotJoined)
            /\ response' = Answer(cb, [op |-> "profile-update", sid |-> s, ok |-> FALSE,
                                       error |-> ErrNotJoined])
            /\ emitted' = <<>>
            /\ UNCHANGED stateVars
       ELSE
         LET profile == userProfiles[s]
             room == profile.room
             user == ProfileUpdateName(u, profile)
             icon == IF u.hasIcon THEN u.icon ELSE profile.icon
             profile1 == [user |-> user, icon |-> icon, room |-> room]
             isMember == MapHas(roomMembers, room) /\ MapHas(roomMembers[room], s)
         IN
         /\ userProfiles' = MapSet(userProfiles, s, profile1)
         /\ roomMembers' = IF isMember
                             THEN MapSet(roomMembers, room,
                                         MapSet(roomMembers[room], s,
                                                [id |-> s, user |-> user, icon |-> icon]))
                             ELSE roomMembers
         /\ emitted' = << Event("profile-updated", room, Subscribers(socketRooms, room),
                                [id |-> s, user |-> user, icon |-> icon]) >>
         /\ event' = Handled("profile-update", s, Passes)
         /\ response' = Answer(cb, [op |-> "profile-update", sid |-> s, ok |-> TRUE,
                                    profile |-> [user |-> user, icon |-> icon]])
         /\ UNCHANGED <<conn, socketRooms, address, roomDirectory, roomSockets, roomMessages,
                        appended, adminSessions, usedTokens, callParticipants>>

(***************************************************************************)
(* The next-state relation over given input sets: S the socket ids, AD the  *)
(* source addresses, JP the join payloads, MI the message payloads, WR the  *)
(* webrtc room fields, CI the call-participation payloads, CN / NP the      *)
(* names and passwords of room creation, DN the names of room deletion,     *)
(* LI the admin login passwords, TK the x-admin-token headers, K the        *)
(* number of events handled in a run.                                       *)
(***************************************************************************)
Handle(K, A) ==
  /\ handled < K
  /\ handled' = handled + 1
  /\ A
  /\ UNCHANGED <<client, wire>>

ServerNext(K, S, AD, JP, MI, WR, CI, CN, NP, DN, LI, TK) ==
  \/ \E s \in S, a \in AD : Handle(K, Connect(s, a))
  \/ \E s \in S, p \in JP : Handle(K, Join(s, p))
  \/ \E s \in S, m \in MI : Handle(K, Message(s, m))
  \/ \E s \in S, r \in WR : Handle(K, Webrtc(s, r))
  \/ \E s \in S, d \in CI : Handle(K, CallParticipation(s, d))
  \/ \E s \in S : Handle(K, Disconnect(s))
  \/ Handle(K, ClearHistory)
  \/ Handle(K, GetRooms)
  \/ \E n \in CN, pw \in NP : Handle(K, PostRooms(n, pw))
  \/ \E pw \in LI : Handle(K, AdminLogin(pw))
  \/ \E tk \in TK : Handle(K, AdminLogout(tk))
  \/ \E tk \in TK : Handle(K, AdminGetRooms(tk))
  \/ \E tk \in TK, n \in CN, pw \in NP : Handle(K, AdminPostRooms(tk, n, pw))
  \/ \E tk \in TK, n \in DN : Handle(K, AdminDeleteRoom(tk, n))


(***************************************************************************)
(* Inputs of the main specification.                                       *)
(***************************************************************************)
JoinPayload(r, pw, u, h, i, cb) ==
  [room |-> r, password |-> pw, user |-> u, hasIcon |-> h, icon |-> i, cb |-> cb]

\* alice joins without an avatar, bob (sent with a leading blank) with one
JoinPayloads ==
  {JoinPayload(r, pw, u.user, u.hasIcon, u.icon, TRUE) :
     r \in {Str(<<SP>>), Str(G), Str(<<SP>> \o L \o <<SP>>)},
     pw \in {Str(G), Str(SECRET)},
     u \in {[user |-> Str(<<SP>>), hasIcon |-> FALSE, icon |-> NullIcon],
            [user |-> Str(ALICE), hasIcon |-> FALSE, icon |-> NullIcon],
            [user |-> Str(<<SP>> \o BOB), hasIcon |-> TRUE, icon |-> ICON1]}}
  \cup {JoinPayload(NotStr, Str(G), Str(ALICE), FALSE, NullIcon, TRUE),
        JoinPayload(Str(G), NotStr, Str(ALICE), FALSE, NullIcon, TRUE),
        JoinPayload(Str(G), Str(G), NotStr, FALSE, NullIcon, TRUE),
        JoinPayload(Str(G), Str(G), Str(ALICE), TRUE, NullIcon, TRUE),
        JoinPayload(Str(G), Str(G), Str(ALICE), FALSE, NullIcon, FALSE),
        JoinPayload(Str(G), Str(SECRET), Str(ALICE), FALSE, NullIcon, FALSE)}

MessageInputs ==
  {[text |-> Str(HI \o <<SP>>), location |-> NoLocation, icon |-> NullIcon],
   [text |-> NotStr, location |-> LOC1, icon |-> NullIcon],
   [text |-> Str(<<SP>>), location |-> NoLocation, icon |-> ICON2],
   [text |-> Str(<<SP>>), location |-> NoLocation, icon |-> NullIcon]}

WebrtcRooms == {NotStr, Str(G)}

CallInputs ==
  {[action |-> a, room |-> NotStr, user |-> NotStr, hasIcon |-> FALSE, icon |-> NullIcon] :
     a \in {"", "join", "update", "leave", "mute"}}
  \cup {[action |-> "join", room |-> Str(G), user |-> NotStr, hasIcon |-> FALSE,
         icon |-> NullIcon],
        [action |-> "leave", room |-> Str(L), user |-> NotStr, hasIcon |-> FALSE,
         icon |-> NullIcon],
        [action |-> "update", room |-> NotStr, user |-> Str(BOB \o <<SP>>), hasIcon |-> TRUE,
         icon |-> NullIcon]}

CreateNames == {NotStr, Str(<<SP>>), Str(G), Str(L \o <<SP>>)}
NewPasswords == {NotStr, Str(SECRET)}
DeleteNames == {Str(G), Str(<<SP>> \o L)}
LoginInputs == {Str(ADMIN_PASSWORD), Str(G), NotStr}
TokenInputs == {0} \cup Tokens

Next ==
  ServerNext(MaxEvents, Sessions, {IP1}, JoinPayloads, MessageInputs, WebrtcRooms, CallInputs,
             CreateNames, NewPasswords, DeleteNames, LoginInputs, TokenInputs)

Spec == Init /\ [][Next]_vars

(***************************************************************************)
(* The long-run specification: the same server and inputs, MaxLongEvents   *)
(* events in a run.                                                        *)
(***************************************************************************)
LongNext ==
  ServerNext(MaxLongEvents, Sessions, {IP1}, JoinPayloads, MessageInputs, WebrtcRooms,
             CallInputs, CreateNames, NewPasswords, DeleteNames, LoginInputs, TokenInputs)

SpecLong == Init /\ [][LongNext]_vars

(***************************************************************************)
(* The capacity specification: NumCapSessions connections that join the    *)
(* default room and disconnect, with no bound on the number of events.      *)
(***************************************************************************)
Free(A) == A /\ UNCHANGED <<handled, client, wire>>

CapJoinPayloads ==
  {JoinPayload(Str(G), Str(G), Str(ALICE), FALSE, NullIcon, TRUE),
   JoinPayload(Str(G), Str(SECRET), Str(ALICE), FALSE, NullIcon, TRUE)}

CapNext ==
  \/ \E s \in CapSessions : Free(Connect(s, IP1))
  \/ \E s \in CapSessions, p \in CapJoinPayloads : Free(Join(s, p))
  \/ \E s \in CapSessions : Free(Disconnect(s))

SpecCap == Init /\ [][CapNext]_vars

(***************************************************************************)
(* The specification with the moderation routes of specification 4.1       *)
(* (blockAddress, unblockAddress) beside the handlers of server.js.        *)
(***************************************************************************)
ModJoinPayloads ==
  {JoinPayload(r, pw, u, FALSE, NullIcon, TRUE) :
     r \in {Str(<<SP>>), Str(G), Str(L)},
     pw \in {Str(G), Str(SECRET)},
     u \in {Str(<<SP>>), Str(ALICE)}}
  \cup {JoinPayload(Str(G), Str(G), Str(ALICE), FALSE, NullIcon, FALSE),
        JoinPayload(Str(G), Str(SECRET), Str(ALICE), FALSE, NullIcon, FALSE)}

ModCallInputs ==
  {[action |-> a, room |-> NotStr, user |-> NotStr, hasIcon |-> FALSE, icon |-> NullIcon] :
     a \in {"join", "leave"}}

ProfileUpdates ==
  {[user |-> Str(BOB \o <<SP>>), hasIcon |-> FALSE, icon |-> NullIcon],
   [user |-> NotStr, hasIcon |-> TRUE, icon |-> ICON1]}

ModNext ==
  \/ ServerNext(MaxEvents, Sessions, {IP1, IP2}, ModJoinPayloads,
                {[text |-> Str(HI), location |-> NoLocation, icon |-> NullIcon]},
                {NotStr}, ModCallInputs, {Str(L)}, {Str(SECRET)}, {Str(L)},
                {Str(ADMIN_PASSWORD)}, TokenInputs)
  \/ \E tk \in TokenInputs, n \in {Str(G), Str(L)}, a \in {IP1, BadAddress} :
       Handle(MaxEvents, BlockAddress(tk, n, a))
  \/ \E tk \in TokenInputs, n \in {Str(G), Str(L)}, a \in {IP1, BadAddress} :
       Handle(MaxEvents, UnblockAddress(tk, n, a))
  \/ \E s \in Sessions, cb \in BOOLEAN : Handle(MaxEvents, LeaveRoom(s, cb))
  \/ \E s \in Sessions, u \in ProfileUpdates, cb \in BOOLEAN :
       Handle(MaxEvents, ProfileUpdate(s, u, cb))

SpecModelled == Init /\ [][ModNext]_vars

(***************************************************************************)
(* The blocking specification: sessions at two addresses that join the     *)
(* default room and its call, and an admin who blocks an address there.     *)
(***************************************************************************)
BlockJoinPayloads == {JoinPayload(Str(G), Str(G), Str(ALICE), FALSE, NullIcon, TRUE)}

BlockCallInputs ==
  {[action |-> "join", room |-> NotStr, user |-> NotStr, hasIcon |-> FALSE, icon |-> NullIcon]}

BlockNext ==
  \/ \E s \in Sessions, a \in {IP1, IP2} : Handle(MaxBlockEvents, Connect(s, a))
  \/ \E s \in Sessions, p \in BlockJoinPayloads : Handle(MaxBlockEvents, Join(s, p))
  \/ \E s \in Sessions, d \in BlockCallInputs :
       Handle(MaxBlockEvents, CallParticipation(s, d))
  \/ \E s \in Sessions : Handle(MaxBlockEvents, Disconnect(s))
  \/ Handle(MaxBlockEvents, AdminLogin(Str(ADMIN_PASSWORD)))
  \/ \E tk \in TokenInputs, a \in {IP1, IP2} :
       Handle(MaxBlockEvents, BlockAddress(tk, Str(G), a))

SpecBlock == Init /\ [][BlockNext]_vars



(***************************************************************************)
(* The history specification: one socket joins the default room and sends   *)
(* chat messages, the n-th with the text n mod 3, until MaxAppended entries *)
(* have been pushed since the last clear; the timer clears the histories.   *)
(***************************************************************************)
HistoryJoinPayloads == {JoinPayload(Str(G), Str(G), Str(ALICE), FALSE, NullIcon, TRUE)}

HistoryMessage(n) ==
  [text |-> Str(<<ToString(n % 3)>>), location |-> NoLocation, icon |-> NullIcon]

HistoryMessageInputs ==
  {HistoryMessage(Len(appended[G])),
   [text |-> Str(<<SP>>), location |-> NoLocation, icon |-> NullIcon]}

HistoryNext ==
  \/ Free(Connect(1, IP1))
  \/ \E p \in HistoryJoinPayloads : Free(Join(1, p))
  \/ \E m \in HistoryMessageInputs : Len(appended[G]) < MaxAppended /\ Free(Message(1, m))
  \/ Free(ClearHistory)

SpecHistory == Init /\ [][HistoryNext]_vars

(***************************************************************************)
(* The page (app.js).  A function of the page takes the page's variables k *)
(* and gives Did(k1, out): the variables it leaves and the events it has    *)
(* handed to socket.emit, in order.                                         *)
(***************************************************************************)
CONTINUOUS_LOCATION_MIN_INTERVAL == 15000

Did(k, out) == [k |-> k, out |-> out]
Emit(ev, data) == [ev |-> ev, data |-> data]
\* d, then F on the variables d has left
Then(d, F(_)) == LET n == F(d.k) IN Did(n.k, d.out \o n.out)

\* the name typed into the join form
UserName == ALICE
\* the texts of the location notices
LocStartText == <<"S">>   \* '常時位置情報の共有を開始しました。'
LocUpdateText == <<"U">>  \* '常時位置情報を更新しました。'
LocStopText == <<"E">>    \* '常時位置情報の共有を停止しました。'

\* joined && ROOM
InRoom(k) == k.joined /\ k.ROOM # NoRoom
\* the room field of an emit: ROOM, null before a join and after an exit
RoomField(k) == IF k.ROOM = NoRoom THEN NotStr ELSE Str(k.ROOM)

\* the payload of a 'message' emit
ChatPayload(k, text, location) ==
  [user |-> Str(UserName), room |-> RoomField(k), icon |-> NullIcon,
   text |-> Str(text), location |-> location]

\* updateLocationButtonsState()
updateLocationButtonsState(k) == [k EXCEPT !.toggleLocationShareDisabled = ~InRoom(k)]

\* setInteractionEnabled(enabled)
setInteractionEnabled(k, enabled) ==
  LET k1 == [k EXCEPT !.inputDisabled = ~enabled, !.sendDisabled = ~enabled]
      k2 == IF enabled THEN updateLocationButtonsState(k1)
            ELSE [k1 EXCEPT !.toggleLocationShareDisabled = TRUE]
  IN [k2 EXCEPT !.startCallDisabled = ~enabled \/ k.inCall,
                !.endCallDisabled = IF ~enabled \/ ~k.inCall THEN TRUE ELSE @]

\* refreshCallButtons()
refreshCallButtons(k) ==
  [k EXCEPT !.startCallDisabled = ~k.joined \/ k.inCall,
            !.endCallDisabled = ~k.joined \/ ~k.inCall]

\* updateCallParticipation(action)
updateCallParticipation(k, action) ==
  Did(k, IF ~InRoom(k) THEN <<>>
         ELSE << Emit("call-participation",
                      [action |-> action, room |-> RoomField(k), user |-> Str(UserName),
                       hasIcon |-> TRUE, icon |-> NullIcon]) >>)

\* socket.emit('webrtc', { room: ROOM, data: { type, target } }); target 0: none
Signal(k, type, target) ==
  Emit("webrtc", [room |-> RoomField(k), data |-> [type |-> type, target |-> target]])

\* the mutant of stopContinuousLocationShare that leaves the chat input disabled
stopContinuousLocationShareDisabling(k, notify) ==
  Did([k EXCEPT !.locationWatchId = FALSE, !.isContinuousLocationSharing = FALSE,
                !.hasSentInitialContinuousLocationMessage = FALSE,
                !.toggleLocationShareDisabled = ~InRoom(k),
                !.inputDisabled = TRUE, !.sendDisabled = TRUE], <<>>)

\* stopContinuousLocationShare({ notify })
stopContinuousLocationShare(k, notify) ==
  LET shouldNotify == /\ notify
                      /\ k.isContinuousLocationSharing
                      /\ InRoom(k)
                      /\ k.hasSentInitialContinuousLocationMessage
      k1 == [k EXCEPT !.locationWatchId = FALSE, !.isContinuousLocationSharing = FALSE,
                      !.hasSentInitialContinuousLocationMessage = FALSE,
                      !.toggleLocationShareDisabled = ~InRoom(k),
                      !.inputDisabled = IF k.joined THEN FALSE ELSE @,
                      !.sendDisabled = IF k.joined THEN FALSE ELSE @]
  IN Did(k1, IF shouldNotify THEN << Emit("message", ChatPayload(k, LocStopText, NoLocation)) >>
             ELSE <<>>)

\* startContinuousLocationShare(); throws: watchPosition threw
startContinuousLocationShare(k, throws) ==
  IF ~InRoom(k) THEN Did(k, <<>>)
  ELSE
    LET k1 == [k EXCEPT !.hasSentInitialContinuousLocationMessage = FALSE,
                        !.isContinuousLocationSharing = TRUE,
                        !.toggleLocationShareDisabled = FALSE,
                        !.inputDisabled = FALSE, !.sendDisabled = FALSE]
    IN IF throws THEN stopContinuousLocationShare(k1, FALSE)
       ELSE Did([k1 EXCEPT !.locationWatchId = TRUE], <<>>)

\* hasSentInitialContinuousLocationMessage && now - lastContinuousLocationUpdate < MIN
Throttled(k, elapsed) ==
  k.hasSentInitialContinuousLocationMessage /\ elapsed < CONTINUOUS_LOCATION_MIN_INTERVAL

\* handlePosition(position): valid says the coordinates are numbers, elapsed is
\* now - lastContinuousLocationUpdate
handlePosition(k, valid, elapsed) ==
  IF ~InRoom(k)
    THEN stopContinuousLocationShare(k, k.hasSentInitialContinuousLocationMessage)
  ELSE IF ~valid \/ Throttled(k, elapsed) THEN Did(k, <<>>)
  ELSE Did([k EXCEPT !.hasSentInitialContinuousLocationMessage = TRUE],
           << Emit("message",
                   ChatPayload(k, IF k.hasSentInitialContinuousLocationMessage
                                    THEN LocUpdateText ELSE LocStartText, LOC1)) >>)

\* handleError(error)
handleError(k) == stopContinuousLocationShare(k, k.hasSentInitialContinuousLocationMessage)

\* the click handler of toggleLocationShareBtn
toggleLocationShare(k, throws) ==
  IF k.isContinuousLocationSharing
    THEN stopContinuousLocationShare(k, k.hasSentInitialContinuousLocationMessage)
    ELSE startContinuousLocationShare(k, throws)

\* the click handler of sendBtn; value is the content of the input field
sendMessage(k, value) ==
  IF ~InRoom(k) \/ Trim(value) = <<>> THEN Did(k, <<>>)
  ELSE Did(k, << Emit("message", ChatPayload(k, Trim(value), NoLocation)) >>)

\* attemptJoin() up to its emit; the three fields are trimmed and must be non-empty
attemptJoin(k, roomName, password) ==
  IF k.joinBtnDisabled \/ Trim(roomName) = <<>> \/ Trim(UserName) = <<>> \/ Trim(password) = <<>>
    THEN Did(k, <<>>)
    ELSE Did([k EXCEPT !.joinBtnDisabled = TRUE],
             << Emit("join", JoinPayload(Str(Trim(roomName)), Str(Trim(password)),
                                         Str(Trim(UserName)), TRUE, NullIcon, TRUE)) >>)

\* the callback of the 'join' emit
joinCallback(k, resp) ==
  IF ~resp.ok THEN Did([k EXCEPT !.joinBtnDisabled = FALSE], <<>>)
  ELSE LET k1 == [k EXCEPT !.joinBtnDisabled = FALSE, !.ROOM = resp.room, !.joined = TRUE,
                          !.leaveRoomBtnDisabled = FALSE]
       IN Did(refreshCallButtons(setInteractionEnabled(k1, TRUE)), <<>>)

\* removeAllPeerConnections()
removeAllPeerConnections(k) == [k EXCEPT !.peerConnections = EmptyMap]

\* endCall({ notifyPeers, notifyServer })
endCall(k, notifyPeers, notifyServer) ==
  LET k1 == [removeAllPeerConnections(k) EXCEPT !.localStream = FALSE,
                                                !.acquiringLocalStream = FALSE]
      leave == IF k.inCall /\ notifyServer THEN updateCallParticipation(k1, "leave").out
               ELSE <<>>
      k2 == refreshCallButtons([k1 EXCEPT !.inCall = FALSE])
  IN Did(k2, leave \o (IF notifyPeers /\ InRoom(k2) THEN << Signal(k2, "hangup", 0) >>
                       ELSE <<>>))

\* exitCurrentRoom(message)
exitCurrentRoom(k) ==
  LET a == IF k.inCall THEN endCall(k, TRUE, TRUE) ELSE Did(k, <<>>)
      b == IF a.k.isContinuousLocationSharing \/ a.k.locationWatchId
             THEN Then(a, LAMBDA x :
                    stopContinuousLocationShare(x, x.hasSentInitialContinuousLocationMessage))
             ELSE a
      k1 == refreshCallButtons(setInteractionEnabled([b.k EXCEPT !.joined = FALSE], FALSE))
  IN Did([k1 EXCEPT !.latestCallParticipants = {}, !.ROOM = NoRoom,
                     !.leaveRoomBtnDisabled = TRUE], b.out)


(***************************************************************************)
(* The voice call of the page.  peerConnections maps a peer to the          *)
(* signalling state of its RTCPeerConnection.  getUserMedia is the one      *)
(* promise another event can overtake: the function that awaits it is kept  *)
(* in pending until the microphone is granted or denied.  The promises of   *)
(* the session descriptions resolve before the next event is handled.       *)
(***************************************************************************)
Task(fn, alreadyInCall, peer) == [fn |-> fn, alreadyInCall |-> alreadyInCall, peer |-> peer]

\* getLocalStream() up to its await: the stream is held, the call throws
\* (no room), or it waits for getUserMedia
getLocalStreamEntry(k) ==
  IF k.localStream THEN "held" ELSE IF ~InRoom(k) THEN "throws" ELSE "waits"

\* the mutant of MayOffer that lets either side begin
MayOfferEither(c, peerId) == c # peerId

\* socket.id < peerId
MayOffer(c, peerId) == c < peerId

\* createOfferForPeer(peerId) with the local stream held
createOfferForPeer(c, k, peerId) ==
  IF peerId = c \/ ~k.localStream THEN Did(k, <<>>)
  ELSE IF MapHas(k.peerConnections, peerId) /\ k.peerConnections[peerId] = "have-local-offer"
    THEN Did(k, <<>>)
  ELSE Did([k EXCEPT !.peerConnections = MapSet(@, peerId, "have-local-offer")],
           << Signal(k, "offer", peerId) >>)

\* the for loop of connectToExistingParticipants over ids, smallest id first
RECURSIVE ConnectEach(_, _, _)
ConnectEach(c, d, ids) ==
  IF ids = {} THEN d
  ELSE LET m == CHOOSE x \in ids : \A y \in ids : x <= y
           n == IF m # c /\ MayOffer(c, m) /\ ~MapHas(d.k.peerConnections, m)
                  THEN Then(d, LAMBDA x : createOfferForPeer(c, x, m))
                  ELSE d
       IN ConnectEach(c, n, ids \ {m})

\* connectToExistingParticipants()
connectToExistingParticipants(c, k) ==
  IF ~InRoom(k) THEN Did(k, <<>>)
  ELSE ConnectEach(c, Did(k, <<>>), k.latestCallParticipants)

\* ensureCallActive({ notifyPeers, updateStatus }) after its await
ensureCallActive(c, k, alreadyInCall, notifyPeers, updateStatus) ==
  LET a == IF ~alreadyInCall
             THEN Then(updateCallParticipation(refreshCallButtons([k EXCEPT !.inCall = TRUE]),
                                               "join"),
                       LAMBDA x : connectToExistingParticipants(c, x))
           ELSE IF updateStatus THEN updateCallParticipation(k, "update")
           ELSE Did(k, <<>>)
  IN Did(a.k, a.out \o (IF notifyPeers /\ InRoom(a.k) THEN << Signal(a.k, "call-ready", 0) >>
                        ELSE <<>>))

\* getLocalStream() after getUserMedia has resolved
streamGranted(k) ==
  [k EXCEPT !.acquiringLocalStream = FALSE, !.localStream = TRUE, !.pending = NoTask]

\* getLocalStream() after getUserMedia has rejected
streamDenied(k) == [k EXCEPT !.acquiringLocalStream = FALSE, !.pending = NoTask]

\* getLocalStream() at its await
streamAwaited(k, task) == [k EXCEPT !.acquiringLocalStream = TRUE, !.pending = task]

\* the click handler of startCallBtn from the point ensureCallActive resumes
startCallResumed(c, k, alreadyInCall) ==
  LET a == ensureCallActive(c, k, alreadyInCall, TRUE, TRUE)
  IN Did(refreshCallButtons(a.k), a.out)

\* the catch and finally of the click handler of startCallBtn
startCallFailed(k) ==
  LET a == endCall(k, FALSE, FALSE) IN Did(refreshCallButtons(a.k), a.out)

\* the click handler of startCallBtn
startCall(c, k) ==
  LET k0 == [k EXCEPT !.startCallDisabled = TRUE] IN
  IF getLocalStreamEntry(k0) = "held" THEN startCallResumed(c, k0, k0.inCall)
  ELSE IF getLocalStreamEntry(k0) = "throws" THEN startCallFailed(k0)
  ELSE Did(streamAwaited(k0, Task("startCall", k0.inCall, 0)), <<>>)

\* handleOffer(peerId, sdp) from the point ensureCallActive resumes
handleOfferResumed(c, k, alreadyInCall, peerId) ==
  LET a == ensureCallActive(c, k, alreadyInCall, FALSE, FALSE)
      glare == MapHas(a.k.peerConnections, peerId)
               /\ a.k.peerConnections[peerId] = "have-local-offer"
  IN IF peerId = c \/ glare THEN a
     ELSE Did(refreshCallButtons([a.k EXCEPT !.peerConnections = MapSet(@, peerId, "stable"),
                                             !.inCall = TRUE]),
              a.out \o << Signal(a.k, "answer", peerId) >>)

\* handleOffer(peerId, sdp)
handleOffer(c, k, peerId) ==
  IF getLocalStreamEntry(k) = "held" THEN handleOfferResumed(c, k, k.inCall, peerId)
  ELSE IF getLocalStreamEntry(k) = "throws" THEN Did(k, <<>>)
  ELSE Did(streamAwaited(k, Task("handleOffer", k.inCall, peerId)), <<>>)

\* handleCallReady(peerId)
handleCallReady(c, k, peerId) ==
  IF peerId = c \/ ~k.inCall \/ ~MayOffer(c, peerId) \/ MapHas(k.peerConnections, peerId)
    THEN Did(k, <<>>)
    ELSE createOfferForPeer(c, k, peerId)

\* handleAnswer(peerId, sdp)
handleAnswer(k, peerId) ==
  IF MapHas(k.peerConnections, peerId)
       /\ k.peerConnections[peerId] = "have-local-offer"
    THEN Did([k EXCEPT !.peerConnections = MapSet(@, peerId, "stable")], <<>>)
    ELSE Did(k, <<>>)

\* handleRemoteHangup(peerId)
handleRemoteHangup(c, k, peerId) ==
  IF peerId = c THEN Did(k, <<>>)
  ELSE Did([k EXCEPT !.peerConnections = MapDelete(@, peerId)], <<>>)

\* getUserMedia resolves: the function in pending resumes
micGranted(c, k) ==
  IF k.pending.fn = "startCall"
    THEN startCallResumed(c, streamGranted(k), k.pending.alreadyInCall)
    ELSE handleOfferResumed(c, streamGranted(k), k.pending.alreadyInCall, k.pending.peer)

\* getUserMedia rejects: the function in pending takes its catch
micDenied(k) ==
  IF k.pending.fn = "startCall" THEN startCallFailed(streamDenied(k))
  ELSE Did(streamDenied(k), <<>>)

\* the click handler of leaveRoomBtn of a page that is in a room
leaveRoom(k) == Did([k EXCEPT !.leaveRoomBtnDisabled = TRUE], << Emit("leave-room", TRUE) >>)

(***************************************************************************)
(* The handlers of the page for what the server sends.                      *)
(***************************************************************************)
\* socket.on('call-participants'); ids are the ids of the list received
onCallParticipants(c, k, ids) ==
  LET k1 == [k EXCEPT !.latestCallParticipants = ids,
                      !.peerConnections = [x \in (DOMAIN @) \cap ids |-> @[x]]]
      a == IF c \notin ids /\ k1.inCall THEN endCall(k1, FALSE, FALSE) ELSE Did(k1, <<>>)
  IN IF a.k.inCall THEN Then(a, LAMBDA x : connectToExistingParticipants(c, x)) ELSE a

\* socket.on('webrtc')
onWebrtc(c, k, sender, data) ==
  IF sender = c \/ (data.target # 0 /\ data.target # c) THEN Did(k, <<>>)
  ELSE IF data.type = "call-ready" THEN handleCallReady(c, k, sender)
  ELSE IF data.type = "offer" THEN handleOffer(c, k, sender)
  ELSE IF data.type = "answer" THEN handleAnswer(k, sender)
  ELSE IF data.type = "hangup" THEN handleRemoteHangup(c, k, sender)
  ELSE Did(k, <<>>)

\* socket.on('room-deleted') and socket.on('room-blocked')
onRoomClosed(k, room) == IF k.ROOM = room THEN exitCurrentRoom(k) ELSE Did(k, <<>>)

\* the callback of the 'leave-room' emit
leaveCallback(k, resp) ==
  IF resp.ok THEN exitCurrentRoom(k)
  ELSE Did([k EXCEPT !.leaveRoomBtnDisabled = ~InRoom(k)], <<>>)

\* the handler the page runs for an event or an acknowledgement it receives
onEvent(c, k, m) ==
  IF m.ev = "call-participants" THEN onCallParticipants(c, k, {p.id : p \in m.data})
  ELSE IF m.ev = "webrtc" THEN onWebrtc(c, k, m.data.sender, m.data.data)
  ELSE IF m.ev \in {"room-deleted", "room-blocked"} THEN onRoomClosed(k, m.data.room)
  ELSE IF m.ev = "ack" /\ m.data.op = "join" THEN joinCallback(k, m.data)
  ELSE IF m.ev = "ack" /\ m.data.op = "leave-room" THEN leaveCallback(k, m.data)
  ELSE Did(k, <<>>)

(***************************************************************************)
(* The connection between a page and the server: wire[c].up holds what the  *)
(* page has emitted and the server has not handled, wire[c].down what the   *)
(* server has sent and the page has not handled, each in order.             *)
(***************************************************************************)
\* the events a page has a handler with an effect on the variables modelled
ClientHears == {"message", "call-participants", "webrtc", "room-deleted", "room-blocked"}

NoMsg == Emit("none", <<>>)

\* what socket x receives of the emits em and the answer resp of a handler
\* that ran for the event m; a relayed 'webrtc' carries the data of m
Heard(x, em, resp, m) ==
  LET mine == SelectSeq(em, LAMBDA e : x \in e.to /\ e.ev \in ClientHears)
      evs == [i \in 1..Len(mine) |->
                Emit(mine[i].ev,
                     IF mine[i].ev = "webrtc"
                       THEN [sender |-> mine[i].data.sender, data |-> m.data.data]
                       ELSE mine[i].data)]
      ack == IF resp.op \in {"join", "leave-room"} /\ resp.sid = x
               THEN << Emit("ack", resp) >> ELSE <<>>
  IN evs \o ack

\* the wire after the server has handled m of socket from (0: a request
\* that did not come over a socket); CS are the sockets with a page
Distribute(CS, from, m) ==
  [x \in DOMAIN wire |->
     [up |-> IF x = from THEN Tail(wire[x].up) ELSE wire[x].up,
      down |-> IF x \in CS THEN wire[x].down \o Heard(x, emitted', response', m)
               ELSE wire[x].down]]

\* something happens in the page of c (a click, a callback of the browser):
\* it runs the handler that gives d
PageDoes(K, c, what, d) ==
  /\ handled < K
  /\ handled' = handled + 1
  /\ conn[c] = "connected"
  /\ client' = [client EXCEPT ![c] = d.k]
  /\ wire' = [wire EXCEPT ![c].up = @ \o d.out]
  /\ event' = Handled(what, c, Passes)
  /\ emitted' = <<>>
  /\ response' = NoResponse
  /\ UNCHANGED stateVars

\* handling m would make a second function of the page wait for the
\* microphone: an offer for a page without a stream whose pending is taken
AwaitsBusyStream(c, k, m) ==
  /\ m.ev = "webrtc"
  /\ m.data.sender # c
  /\ m.data.data.target \in {0, c}
  /\ m.data.data.type = "offer"
  /\ getLocalStreamEntry(k) = "waits"
  /\ k.pending # NoTask

\* the page of c handles the next event the server has sent it
PageReceives(c) ==
  /\ wire[c].down # <<>>
  /\ ~AwaitsBusyStream(c, client[c], Head(wire[c].down))
  /\ LET d == onEvent(c, client[c], Head(wire[c].down)) IN
     /\ client' = [client EXCEPT ![c] = d.k]
     /\ wire' = [wire EXCEPT ![c].up = @ \o d.out, ![c].down = Tail(@)]
  /\ event' = Handled("page-receives", c, Head(wire[c].down).ev)
  /\ emitted' = <<>>
  /\ response' = NoResponse
  /\ UNCHANGED <<stateVars, handled>>

\* the server handles the next event of socket c with handler A
ServerReceives(CS, c, ev, A) ==
  /\ wire[c].up # <<>>
  /\ Head(wire[c].up).ev = ev
  /\ A
  /\ wire' = Distribute(CS, c, Head(wire[c].up))
  /\ UNCHANGED <<client, handled>>

\* the server handles a connection, a request or an event of a socket
\* without a page
ServerHandles(K, CS, A) ==
  /\ handled < K
  /\ handled' = handled + 1
  /\ A
  /\ wire' = Distribute(CS, 0, NoMsg)
  /\ UNCHANGED client


(***************************************************************************)
(* The location specification: the page of socket 1 joins the default room, *)
(* shares its location, sends chat messages; socket 2 has no page and joins *)
(* the same room; the admin deletes the room.                               *)
(***************************************************************************)
FieldValues == {HI \o <<SP>>, <<SP>>}

ShareNext ==
  \/ \E s \in {1, 2} : ServerHandles(MaxShareEvents, {1}, Connect(s, IP1))
  \/ ServerHandles(MaxShareEvents, {1},
                   Join(2, JoinPayload(Str(G), Str(G), Str(BOB), FALSE, NullIcon, TRUE)))
  \/ ServerHandles(MaxShareEvents, {1}, AdminLogin(Str(ADMIN_PASSWORD)))
  \/ \E tk \in Tokens : ServerHandles(MaxShareEvents, {1}, AdminDeleteRoom(tk, Str(G)))
  \/ \E pw \in {G, SECRET} :
       /\ ~client[1].joined
       /\ PageDoes(MaxShareEvents, 1, "attemptJoin", attemptJoin(client[1], G, pw))
  \/ \E throws \in BOOLEAN :
       /\ ~client[1].toggleLocationShareDisabled
       /\ PageDoes(MaxShareEvents, 1, "toggleLocationShare",
                   toggleLocationShare(client[1], throws))
  \/ \E valid \in BOOLEAN, elapsed \in {14999, 15000} :
       /\ client[1].locationWatchId
       /\ PageDoes(MaxShareEvents, 1, "handlePosition",
                   handlePosition(client[1], valid, elapsed))
  \/ /\ client[1].locationWatchId
     /\ PageDoes(MaxShareEvents, 1, "handleError", handleError(client[1]))
  \/ \E value \in FieldValues :
       /\ ~client[1].sendDisabled
       /\ PageDoes(MaxShareEvents, 1, "sendMessage", sendMessage(client[1], value))
  \/ ServerReceives({1}, 1, "join", Join(1, Head(wire[1].up).data))
  \/ ServerReceives({1}, 1, "message", Message(1, Head(wire[1].up).data))
  \/ PageReceives(1)

SpecShare == Init /\ [][ShareNext]_vars


(***************************************************************************)
(* The call specification: the page of socket 1 joins the default room and  *)
(* starts and ends calls; socket 2 has no page, joins the same room and its *)
(* call; the admin deletes the room.                                        *)
(***************************************************************************)
PeerCallInputs ==
  {[action |-> a, room |-> NotStr, user |-> NotStr, hasIcon |-> FALSE, icon |-> NullIcon] :
     a \in {"join", "leave"}}

\* the click on startCallBtn can be handled: the button is enabled and no
\* other function of the page is waiting for the microphone
CanStartCall(k) ==
  /\ ~k.startCallDisabled
  /\ getLocalStreamEntry(k) = "waits" => k.pending = NoTask

CallNext ==
  \/ \E s \in {1, 2} : ServerHandles(MaxCallEvents, {1}, Connect(s, IP1))
  \/ ServerHandles(MaxCallEvents, {1},
                   Join(2, JoinPayload(Str(G), Str(G), Str(BOB), FALSE, NullIcon, TRUE)))
  \/ \E d \in PeerCallInputs : ServerHandles(MaxCallEvents, {1}, CallParticipation(2, d))
  \/ ServerHandles(MaxCallEvents, {1}, AdminLogin(Str(ADMIN_PASSWORD)))
  \/ \E tk \in Tokens : ServerHandles(MaxCallEvents, {1}, AdminDeleteRoom(tk, Str(G)))
  \/ /\ ~client[1].joined
     /\ PageDoes(MaxCallEvents, 1, "attemptJoin", attemptJoin(client[1], G, G))
  \/ /\ CanStartCall(client[1])
     /\ PageDoes(MaxCallEvents, 1, "startCall", startCall(1, client[1]))
  \/ /\ client[1].pending # NoTask
     /\ PageDoes(MaxCallEvents, 1, "micGranted", micGranted(1, client[1]))
  \/ /\ client[1].pending # NoTask
     /\ PageDoes(MaxCallEvents, 1, "micDenied", micDenied(client[1]))
  \/ /\ ~client[1].endCallDisabled
     /\ PageDoes(MaxCallEvents, 1, "endCall", endCall(client[1], TRUE, TRUE))
  \/ ServerReceives({1}, 1, "join", Join(1, Head(wire[1].up).data))
  \/ ServerReceives({1}, 1, "call-participation",
                    CallParticipation(1, Head(wire[1].up).data))
  \/ ServerReceives({1}, 1, "webrtc", Webrtc(1, Head(wire[1].up).data.room))
  \/ PageReceives(1)

SpecCall == Init /\ [][CallNext]_vars


(***************************************************************************)
(* The two-page specification: the pages of sockets 1 and 2 join the        *)
(* default room, start and end calls, and negotiate through the server.     *)
(***************************************************************************)
Pages == {1, 2}

PeerNext ==
  \/ \E c \in Pages : ServerHandles(MaxPeerEvents, Pages, Connect(c, IP1))
  \/ \E c \in Pages :
       /\ ~client[c].joined
       /\ PageDoes(MaxPeerEvents, c, "attemptJoin", attemptJoin(client[c], G, G))
  \/ \E c \in Pages :
       /\ CanStartCall(client[c])
       /\ PageDoes(MaxPeerEvents, c, "startCall", startCall(c, client[c]))
  \/ \E c \in Pages :
       /\ client[c].pending # NoTask
       /\ PageDoes(MaxPeerEvents, c, "micGranted", micGranted(c, client[c]))
  \/ \E c \in Pages :
       /\ client[c].pending # NoTask
       /\ PageDoes(MaxPeerEvents, c, "micDenied", micDenied(client[c]))
  \/ \E c \in Pages :
       /\ ~client[c].endCallDisabled
       /\ PageDoes(MaxPeerEvents, c, "endCall", endCall(client[c], TRUE, TRUE))
  \/ \E c \in Pages : ServerReceives(Pages, c, "join", Join(c, Head(wire[c].up).data))
  \/ \E c \in Pages : ServerReceives(Pages, c, "call-participation",
                                     CallParticipation(c, Head(wire[c].up).data))
  \/ \E c \in Pages : ServerReceives(Pages, c, "webrtc", Webrtc(c, Head(wire[c].up).data.room))
  \/ \E c \in Pages : PageReceives(c)

SpecPeers == Init /\ [][PeerNext]_vars


(***************************************************************************)
(* Properties.                                                             *)
(***************************************************************************)
RoomNames == {G, L}

\* the rooms whose membership registry (roomSockets / roomMembers) holds s
RoomsOf(s) ==
  {r \in DOMAIN roomSockets : s \in roomSockets[r]}
  \cup {r \in DOMAIN roomMembers : MapHas(roomMembers[r], s)}

\* the rooms whose call roster holds s
CallsOf(s) == {r \in DOMAIN callParticipants : MapHas(callParticipants[r], s)}

\* C1: each session id is in the membership registry of at most one room.
C1_AtMostOneRoom == \A s \in AllSessions : Cardinality(RoomsOf(s)) <= 1

C3_Rejoin(s, p) ==
  LET room == sanitizeRoomName(p.room)
      entry == [id |-> s, user |-> JoinRawName(p), icon |-> JoinIcon(p)]
  IN (/\ JoinCheck(p) = JoinPasses
      /\ MapHas(roomSockets, room) /\ s \in roomSockets[room]
      /\ MapHas(roomMembers[room], s))
     => \/ /\ event'.result = Passes
           /\ p.cb => (response'.op = "join" /\ response'.ok /\ response'.sid = s)
           /\ roomSockets'[room] = roomSockets[room]
           /\ DOMAIN roomMembers'[room] = DOMAIN roomMembers[room]
           /\ Cardinality(DOMAIN roomMembers'[room]) = Cardinality(roomSockets'[room])
           /\ roomMembers'[room][s] = entry
           /\ userProfiles'[s] = [user |-> entry.user, icon |-> entry.icon, room |-> room]
        \/ ~Join(s, p)

\* C3: every accepted join satisfies the re-join property for each payload
\* that can have caused it.
C3_RejoinIdempotent ==
  [][(event'.op = "join" /\ event'.result = JoinPasses)
     => \A p \in JoinPayloads : C3_Rejoin(event'.sid, p)]_vars

\* C3 witness: a session that joined the default room as alice and entered the
\* call has just joined the same room again as bob with an avatar.
C3_Witness ==
  \E s \in Sessions :
    /\ event = Handled("join", s, JoinPasses)
    /\ MapHas(roomMessages, G)
    /\ response = [op |-> "join", sid |-> s, ok |-> TRUE, room |-> G,
                   messages |-> roomMessages[G]]
    /\ MapHas(callParticipants, G) /\ MapHas(callParticipants[G], s)
    /\ callParticipants[G][s].user = ALICE
    /\ MapHas(roomMembers, G) /\ MapHas(roomMembers[G], s)
    /\ roomMembers[G][s] = [id |-> s, user |-> BOB, icon |-> ICON1]
    /\ MapHas(userProfiles, s)
    /\ userProfiles[s] = [user |-> BOB, icon |-> ICON1, room |-> G]

\* C4: a session that has disconnected is in no room's membership registry,
\* in no call roster and not in the profile store.
C4_GoneEverywhere ==
  \A s \in AllSessions :
    conn[s] = "gone" => /\ RoomsOf(s) = {}
                        /\ CallsOf(s) = {}
                        /\ ~MapHas(userProfiles, s)

\* C5: a session is in a room's socket-id set exactly when it is subscribed to
\* the room's broadcast group.
C5_MembershipIsSubscription ==
  \A s \in AllSessions, r \in RoomNames :
    (MapHas(roomSockets, r) /\ s \in roomSockets[r]) <=> (r \in socketRooms[s])

\* C6: a 'message' broadcast for room R reaches exactly the connected sessions
\* whose current room is R.
C6_MessageToCurrentRoom ==
  \A i \in DOMAIN emitted :
    emitted[i].ev = "message" =>
      emitted[i].to = {s \in Connected(conn) :
                         MapHas(userProfiles, s) /\ userProfiles[s].room = emitted[i].group}

\* C7: a room name that is not in the directory is in none of the membership
\* registries, history buffers and call rosters, and is no session's current
\* room.
C7_DeletedRoomGone ==
  \A r \in RoomNames :
    ~MapHas(roomDirectory, r) =>
      /\ ~MapHas(roomSockets, r)
      /\ ~MapHas(roomMembers, r)
      /\ ~MapHas(roomMessages, r)
      /\ ~MapHas(callParticipants, r)
      /\ \A s \in DOMAIN userProfiles : userProfiles[s].room # r

\* C7 witness: a room with a subscribed member has just been deleted.
C7_Witness ==
  /\ event = Handled("DELETE /api/admin/rooms", 0, Passes)
  /\ Len(emitted) = 2
  /\ emitted[1].ev = "room-deleted"
  /\ emitted[1].to # {}
  /\ ~MapHas(roomDirectory, emitted[1].data.room)
  /\ emitted[2].ev = "rooms-update"

\* C8: each call roster is a subset of its room's membership registry, and a
\* call-participation join or update from a session that is not in the target
\* room's registry changes nothing and emits nothing.
C8_RosterSubset ==
  \A r \in DOMAIN callParticipants :
    /\ MapHas(roomSockets, r) /\ MapHas(roomMembers, r)
    /\ DOMAIN callParticipants[r] \subseteq roomSockets[r]
    /\ DOMAIN callParticipants[r] \subseteq DOMAIN roomMembers[r]

C8_NonMember(s, d) ==
  LET hasRoom == MapHas(userProfiles, s) /\ userProfiles[s].room # NoRoom
      target == IF sanitizeRoomName(d.room) # <<>> THEN sanitizeRoomName(d.room)
                ELSE IF hasRoom THEN userProfiles[s].room ELSE NoRoom
  IN (/\ d.action \in {"join", "update"}
      /\ ~(MapHas(roomSockets, target) /\ s \in roomSockets[target])
      /\ CallParticipation(s, d))
     => (UNCHANGED stateVars /\ emitted' = <<>>)

C8_NonMemberNoOp ==
  event'.op = "call-participation" => \A d \in CallInputs : C8_NonMember(event'.sid, d)

\* C8: the roster inclusion holds in every state and every call-participation
\* event from a non-member is a no-op.
C8_CallRosterWithinMembership == []C8_RosterSubset /\ [][C8_NonMemberNoOp]_vars

\* C8 witness: a session that is joined to a room has just sent a
\* call-participation join or update for another room of the directory, and
\* it was dropped with nothing emitted.
C8_Witness ==
  \E x \in Connected(conn) :
    /\ event = Handled("call-participation", x, NotMember)
    /\ MapHas(userProfiles, x) /\ userProfiles[x].room # NoRoom
    /\ RoomsOf(x) # {}
    /\ CallsOf(x) = {}
    /\ emitted = <<>>
    /\ response = NoResponse

\* C9: a join that fails validation changes no collection and no subscription
\* and emits nothing.
C9_FailedJoinNoEffect ==
  [][(event'.op = "join" /\ event'.result # JoinPasses)
     => /\ UNCHANGED stateVars
        /\ emitted' = <<>>
        /\ response' \in {NoResponse,
                          [op |-> "join", sid |-> event'.sid, ok |-> FALSE,
                           error |-> event'.result]}
    ]_vars

\* C9 witness: a session that is joined to a room was just refused a join.
C9_Witness ==
  \E s \in Sessions :
    /\ event.op = "join" /\ event.sid = s /\ event.result = ErrWrongPassword
    /\ response.op = "join" /\ ~response.ok /\ response.sid = s
    /\ MapHas(userProfiles, s) /\ userProfiles[s].room # NoRoom
    /\ RoomsOf(s) # {}

\* the checks of a join in the order the specification gives (4.2 step 1)
SpecJoinCheck(s, p) ==
  LET roomName == sanitizeRoomName(p.room) IN
  IF roomName = <<>> THEN ErrMissingRoom
  ELSE IF ~MapHas(roomDirectory, roomName) THEN ErrRoomNotFound
  ELSE IF address[s] \in roomDirectory[roomName].blocked THEN ErrBlocked
  ELSE IF ~(p.password.t = "string" /\ roomDirectory[roomName].password = p.password.v)
    THEN ErrWrongPassword
  ELSE IF JoinRawName(p) = <<>> THEN ErrMissingName
  ELSE JoinPasses

RemainingMembers(rs, c, room) ==
  IF MapHas(rs, room) THEN rs[room] \cap Connected(c) ELSE {}

IsAnswer(r, op, s) ==
  /\ r # NoResponse
  /\ r.op = op /\ r.sid = s
  /\ r.ok \/ r.error \in {ErrMissingRoom, ErrRoomNotFound, ErrWrongPassword, ErrMissingName,
                           ErrJoinFailed, ErrBlocked, ErrRoomFull, ErrNotJoined}

C15_Block(a) ==
  LET members == RemainingMembers(roomSockets, conn, G)
      inCall(cp, x) == MapHas(cp, G) /\ MapHas(cp[G], x)
  IN /\ \A B \in members :
          address[B] = a =>
            /\ B \notin roomSockets'[G]
            /\ ~MapHas(roomMembers'[G], B)
            /\ ~inCall(callParticipants', B)
            /\ Cardinality({i \in DOMAIN emitted' :
                              /\ emitted'[i].ev = "room-blocked"
                              /\ emitted'[i].to = {B}
                              /\ emitted'[i].data = [room |-> G]}) = 1
     /\ \A A \in members :
          address[A] # a =>
            /\ A \in roomSockets'[G]
            /\ MapHas(roomMembers'[G], A) /\ roomMembers'[G][A] = roomMembers[G][A]
            /\ inCall(callParticipants', A) = inCall(callParticipants, A)
            /\ inCall(callParticipants, A) => callParticipants'[G][A] = callParticipants[G][A]
            /\ userProfiles'[A] = userProfiles[A]
            /\ socketRooms'[A] = socketRooms[A]
            /\ \A i \in DOMAIN emitted' :
                 emitted'[i].ev = "room-blocked" => A \notin emitted'[i].to

C16_HistoryIsNewest ==
  \A r \in DOMAIN roomMessages :
    LET n == Len(appended[r])
        k == IF n < MAX_MESSAGES_PER_ROOM THEN n ELSE MAX_MESSAGES_PER_ROOM
    IN /\ Len(roomMessages[r]) <= MAX_MESSAGES_PER_ROOM
       /\ roomMessages[r] = [i \in 1..k |-> appended[r][n - k + i]]

\* C16 witness: 501 entries were pushed to the default room; 500 are left and
\* the second one pushed is now the first.
C16_Witness ==
  /\ Len(appended[G]) = MAX_MESSAGES_PER_ROOM + 1
  /\ Len(roomMessages[G]) = MAX_MESSAGES_PER_ROOM
  /\ roomMessages[G][1] = appended[G][2]
  /\ roomMessages[G][1] # appended[G][1]
  /\ roomMessages[G][MAX_MESSAGES_PER_ROOM] = appended[G][MAX_MESSAGES_PER_ROOM + 1]

\* the newest MAX_MESSAGES_PER_ROOM entries of a sequence, in its order
Newest(seq) ==
  LET n == Len(seq)
      k == IF n < MAX_MESSAGES_PER_ROOM THEN n ELSE MAX_MESSAGES_PER_ROOM
  IN [i \in 1..k |-> seq[n - k + i]]

\* C17: an accepted join with a callback is answered with the entries pushed
\* to the joined room since its creation or last clear, newest 500, in the
\* order they were pushed, and with nothing else.
C17_JoinReplaysHistory ==
  [][(event'.op = "join" /\ event'.result = JoinPasses) =>
       \A p \in JoinPayloads :
         p.cb =>
           \/ /\ response'.op = "join" /\ response'.ok
              /\ response'.room = sanitizeRoomName(p.room)
              /\ MapHas(appended, sanitizeRoomName(p.room))
              /\ response'.messages = Newest(appended[sanitizeRoomName(p.room)])
           \/ ~Join(event'.sid, p)]_vars

\* C17 witness: a session that joined as bob was handed the entry alice had
\* sent to the room.
C17_Witness ==
  \E s \in Sessions :
    /\ event = Handled("join", s, JoinPasses)
    /\ response.op = "join" /\ response.ok /\ response.sid = s
    /\ userProfiles[s].user = BOB
    /\ Len(response.messages) = 1
    /\ response.messages[1].user = ALICE
    /\ response.messages[1].text = HI

\* C18: every entry of every history buffer has a text that is not blank or a
\* location.
C18_EntriesHaveContent ==
  \A r \in DOMAIN roomMessages :
    \A i \in DOMAIN roomMessages[r] :
      Trim(roomMessages[r][i].text) # <<>> \/ roomMessages[r][i].location # NoLocation

\* a message whose text is blank and that has no location pushes no entry and
\* causes no 'message' broadcast
C18_BlankDropped ==
  event'.op = "message" =>
    \A m \in MessageInputs :
      ((m.text.t # "string" \/ Trim(m.text.v) = <<>>) /\ m.location = NoLocation)
      => \/ /\ roomMessages' = roomMessages
            /\ \A i \in DOMAIN emitted' : emitted'[i].ev # "message"
         \/ ~Message(event'.sid, m)

\* C18: the buffers hold only entries with content in every state, and every
\* message event with a blank text and no location is dropped.
C18_NoEmptyEntry == []C18_EntriesHaveContent /\ [][C18_BlankDropped]_vars

\* C18 witness: a member of a room whose history holds an entry has just
\* sent a blank message, which was dropped.
C18_Witness ==
  \E s \in Sessions :
    /\ event = Handled("message", s, "dropped")
    /\ MapHas(userProfiles, s) /\ userProfiles[s].room = G
    /\ s \in roomSockets[G]
    /\ Len(roomMessages[G]) = 1
    /\ emitted = <<>>

\* C19: a message event from a session that has no current room, or that is
\* not in the socket-id set of its current room, changes nothing, emits
\* nothing and is not answered.
C19_StrayMessageDiscarded ==
  [][(/\ event'.op = "message"
      /\ LET s == event'.sid IN
         \/ ~MapHas(userProfiles, s)
         \/ userProfiles[s].room = NoRoom
         \/ ~MapHas(roomSockets, userProfiles[s].room)
         \/ s \notin roomSockets[userProfiles[s].room])
     => /\ UNCHANGED stateVars
        /\ emitted' = <<>>
        /\ response' = NoResponse
    ]_vars

\* C19 witness: a session whose room was deleted has just sent a message,
\* which was ignored.
C19_Witness ==
  \E s \in Connected(conn) :
    /\ event = Handled("message", s, Ignored)
    /\ MapHas(userProfiles, s) /\ userProfiles[s].room = NoRoom
    /\ emitted = <<>>
    /\ response = NoResponse

\* C20: a webrtc event is forwarded only for a sender that is in the socket-id
\* set of the room it is forwarded to, only to sessions of that room, and
\* never to the sender.
C20_WebrtcWithinMembership ==
  \A i \in DOMAIN emitted :
    (emitted[i].ev = "webrtc" /\ emitted[i].to # {}) =>
      /\ MapHas(roomSockets, emitted[i].group)
      /\ emitted[i].data.sender \in roomSockets[emitted[i].group]
      /\ emitted[i].data.sender \notin emitted[i].to

\* no room of the call registry has an empty roster
C21_NoEmptyRoster ==
  \A r \in DOMAIN callParticipants : DOMAIN callParticipants[r] # {}

\* a 'call-participants' broadcast for a room carries the empty list exactly
\* when the room has no entry in the registry after the handler
C21_AbsentIsEmptyList ==
  \A i \in DOMAIN emitted :
    (emitted[i].ev = "call-participants" /\ emitted[i].group # NoRoom) =>
      (emitted[i].data = {} <=> ~MapHas(callParticipants, emitted[i].group))

\* the roster an accepted join sends the joining session is the empty list
\* exactly when the joined room has no entry in the registry
C21_JoinerGetsEmptyList ==
  (event.op = "join" /\ event.result = JoinPasses) =>
    \E i \in DOMAIN emitted :
      /\ emitted[i].ev = "call-participants" /\ emitted[i].to = {event.sid}
      /\ emitted[i].data = {} <=> ~MapHas(callParticipants, userProfiles[event.sid].room)

\* a step that takes the only participant out of a room's roster removes the
\* room's entry and broadcasts the empty list to the room
C21_LastOneOut ==
  \A r \in DOMAIN callParticipants :
    \A s \in DOMAIN callParticipants[r] :
      (/\ DOMAIN callParticipants[r] = {s}
       /\ event'.op \in {"call-participation", "disconnect"}
       /\ event'.sid = s
       /\ ~(MapHas(callParticipants', r) /\ MapHas(callParticipants'[r], s)))
      => /\ ~MapHas(callParticipants', r)
         /\ \E i \in DOMAIN emitted' :
              emitted'[i] = Event("call-participants", r, Subscribers(socketRooms', r), {})

\* C21: the call registry never maps a room to an empty roster; when the last
\* participant leaves the call or disconnects, the room's entry is removed;
\* the roster broadcast for a room without an entry is the empty list.
C21_RosterAbsentNotEmpty ==
  /\ [](C21_NoEmptyRoster /\ C21_AbsentIsEmptyList /\ C21_JoinerGetsEmptyList)
  /\ [][C21_LastOneOut]_vars

\* C21 witness: the only participant of a room's call has just left the call;
\* the room is still in the directory, has no registry entry, and its members
\* were sent the empty list.
C21_Witness ==
  \E s \in Connected(conn) :
    /\ event = Handled("call-participation", s, Passes)
    /\ MapHas(roomDirectory, G) /\ s \in roomSockets[G]
    /\ ~MapHas(callParticipants, G)
    /\ emitted = << Event("call-participants", G, Subscribers(socketRooms, G), {}) >>
    /\ s \in emitted[1].to

\* the routes behind authenticateAdmin
AdminOps ==
  {"POST /api/admin/logout", "GET /api/admin/rooms", "POST /api/admin/rooms",
   "DELETE /api/admin/rooms"}

\* what the claim says of a request that presents token tk to an admin route:
\* a valid token is let through and stays valid (logout ends it), any other
\* token is answered 401 and nothing changes
C22_Gate(op, tk) ==
  IF tk # 0 /\ tk \in adminSessions
    THEN /\ event'.result # ErrUnauthenticated
         /\ response'.status # 401
         /\ adminSessions' = IF op = "POST /api/admin/logout" THEN adminSessions \ {tk}
                             ELSE adminSessions
    ELSE /\ event' = Handled(op, 0, ErrUnauthenticated)
         /\ response' = Http(op, 401, FALSE, ErrUnauthenticated)
         /\ emitted' = <<>>
         /\ UNCHANGED stateVars

C22_AdminOp ==
  /\ event'.op = "POST /api/admin/logout" =>
       \A tk \in TokenInputs : C22_Gate(event'.op, tk) \/ ~AdminLogout(tk)
  /\ event'.op = "GET /api/admin/rooms" =>
       \A tk \in TokenInputs : C22_Gate(event'.op, tk) \/ ~AdminGetRooms(tk)
  /\ event'.op = "POST /api/admin/rooms" =>
       \A tk \in TokenInputs, n \in CreateNames, pw \in NewPasswords :
         C22_Gate(event'.op, tk) \/ ~AdminPostRooms(tk, n, pw)
  /\ event'.op = "DELETE /api/admin/rooms" =>
       \A tk \in TokenInputs, n \in DeleteNames :
         C22_Gate(event'.op, tk) \/ ~AdminDeleteRoom(tk, n)

\* a login with the admin password issues a token no login issued before; a
\* login with anything else issues none and changes nothing
C22_Login ==
  event'.op = "POST /api/admin/login" =>
    \A pw \in LoginInputs :
      \/ IF pw = Str(ADMIN_PASSWORD)
           THEN /\ response'.status = 200
                /\ response'.body.token \in Tokens \ usedTokens
                /\ adminSessions' = adminSessions \cup {response'.body.token}
                /\ usedTokens' = usedTokens \cup {response'.body.token}
           ELSE /\ response' = Http("POST /api/admin/login", 401, FALSE, ErrLoginPassword)
                /\ UNCHANGED stateVars
      \/ ~AdminLogin(pw)

\* the set of valid tokens changes by a login or a logout only
C22_TokensKept ==
  event'.op \notin {"POST /api/admin/login", "POST /api/admin/logout"}
    => UNCHANGED <<adminSessions, usedTokens>>

\* C22: an admin operation is executed exactly when the presented token was
\* issued by a login with the admin password and not logged out since; a wrong
\* login issues no token; a token stays valid until its logout; any other
\* request to an admin route is answered 401 and changes nothing.
C22_AdminTokenGate ==
  /\ [](adminSessions \subseteq usedTokens /\ 0 \notin adminSessions)
  /\ [][C22_AdminOp /\ C22_Login /\ C22_TokensKept]_vars

\* C22 witness: after a login and the logout of its token, a request to an
\* admin route was answered 401.
C22_Witness ==
  /\ event.op \in AdminOps
  /\ event.result = ErrUnauthenticated
  /\ response.status = 401
  /\ usedTokens # {}
  /\ adminSessions = {}

\* the directories that have the given room names and any passwords, creation
\* times and blocklists
DirectoriesNamed(names) ==
  [names -> [password : {G, SECRET, <<>>}, createdAt : {0, 1}, blocked : SUBSET {IP1}]]

\* the public room lists the last handler sent: every rooms-update broadcast
\* and the answers of GET /api/rooms and POST /api/rooms
PublicPayloads ==
  {emitted[i].data : i \in {j \in DOMAIN emitted : emitted[j].ev = "rooms-update"}}
  \cup (IF event = Handled("GET /api/rooms", 0, Passes) THEN {response.body} ELSE {})
  \cup (IF event = Handled("POST /api/rooms", 0, Passes) THEN {response.body.rooms} ELSE {})

\* C23: every public room list sent is the list a server with the same room
\* names and any other passwords, creation times and blocklists would send,
\* and its entries carry the room name and nothing else.
C23_PublicListNamesOnly ==
  \A payload \in PublicPayloads :
    /\ \A rd \in DirectoriesNamed(DOMAIN roomDirectory) : payload = getPublicRooms(rd)
    /\ payload = {[name |-> n] : n \in DOMAIN roomDirectory}

\* C23 witness: a room with a password of its own has just been created beside
\* the default room, and a connected client was sent the list of both names.
C23_Witness ==
  /\ event.result = Passes
  /\ Len(emitted) = 1
  /\ emitted[1].ev = "rooms-update"
  /\ emitted[1].to # {}
  /\ emitted[1].data = {[name |-> G], [name |-> L]}
  /\ roomDirectory[L].password = SECRET
  /\ roomDirectory[G].password = G

\* the error the claim gives a createRoom / deleteRoom of a name in the
\* current directory, Passes when it gives none
C24_CreateError(n) ==
  IF n.t # "string" \/ Trim(n.v) = <<>> THEN ErrInvalidName
  ELSE IF Trim(n.v) \in DOMAIN roomDirectory THEN ErrAlreadyExists
  ELSE Passes

C24_DeleteError(n) ==
  IF n.t = "string" /\ Trim(n.v) \in DOMAIN roomDirectory THEN Passes ELSE ErrNotFound

\* the request was refused with the error and nothing changed or was emitted
C24_Refused(err) ==
  /\ event'.result = err
  /\ response' = Http(event'.op, 400, FALSE, err)
  /\ emitted' = <<>>
  /\ UNCHANGED stateVars

C24_FailedOp ==
  /\ event'.op = "POST /api/rooms" =>
       \A n \in CreateNames, pw \in NewPasswords :
         C24_CreateError(n) # Passes => (C24_Refused(C24_CreateError(n)) \/ ~PostRooms(n, pw))
  /\ event'.op = "POST /api/admin/rooms" =>
       \A tk \in adminSessions, n \in CreateNames, pw \in NewPasswords :
         C24_CreateError(n) # Passes
           => (C24_Refused(C24_CreateError(n)) \/ ~AdminPostRooms(tk, n, pw))
  /\ event'.op = "DELETE /api/admin/rooms" =>
       \A tk \in adminSessions, n \in DeleteNames :
         C24_DeleteError(n) # Passes
           => (C24_Refused(C24_DeleteError(n)) \/ ~AdminDeleteRoom(tk, n))

\* every key of the directory is a trimmed, non-empty name
C24_NamesTrimmed ==
  \A n \in DOMAIN roomDirectory : n # <<>> /\ Trim(n) = n

\* C24: a createRoom refused with InvalidName or AlreadyExists and a
\* deleteRoom refused with NotFound change no collection and emit no
\* rooms-update; the directory is keyed by trimmed names, one entry each.
C24_FailedDirectoryOpNoEffect ==
  /\ []C24_NamesTrimmed
  /\ [][C24_FailedOp]_vars

\* C24 witness: the creation of a room under the name of an existing room
\* that has a member was just refused.
C24_Witness ==
  /\ event.op \in {"POST /api/rooms", "POST /api/admin/rooms"}
  /\ event.result = ErrAlreadyExists
  /\ response.status = 400
  /\ emitted = <<>>
  /\ \E r \in DOMAIN roomSockets : roomSockets[r] # {}

\* C25: the disconnect of a session that has no profile, or whose profile has
\* no current room, emits nothing, changes no room's socket-id set, member
\* Map, call roster or history (nor the directory), and removes the session's
\* profile entry.
C25_DisconnectWithoutRoom ==
  [][(/\ event'.op = "disconnect"
      /\ ~(MapHas(userProfiles, event'.sid) /\ userProfiles[event'.sid].room # NoRoom))
     => /\ emitted' = <<>>
        /\ response' = NoResponse
        /\ UNCHANGED <<roomDirectory, roomSockets, roomMembers, callParticipants,
                       roomMessages, adminSessions>>
        /\ userProfiles' = MapDelete(userProfiles, event'.sid)
        /\ \A x \in DOMAIN socketRooms : x # event'.sid => socketRooms'[x] = socketRooms[x]
    ]_vars

\* C25 witness: a session without a current room has just disconnected while
\* another session is a member of a room; nothing was emitted.
C25_Witness ==
  \E s \in Sessions :
    /\ event = Handled("disconnect", s, Passes)
    /\ conn[s] = "gone"
    /\ emitted = <<>>
    /\ ~MapHas(userProfiles, s)
    /\ \E r \in DOMAIN roomSockets : roomSockets[r] \cap Connected(conn) # {}

\* the effect the claim gives an accepted profile-update u of session s
C26_Update(s, u) ==
  LET R == userProfiles[s].room
      user == IF u.user.t = "string" /\ Trim(u.user.v) # <<>> THEN Trim(u.user.v)
              ELSE userProfiles[s].user
      icon == IF u.hasIcon THEN u.icon ELSE userProfiles[s].icon
  IN /\ R # NoRoom
     /\ userProfiles' = MapSet(userProfiles, s, [user |-> user, icon |-> icon, room |-> R])
     /\ MapHas(roomMembers', R) /\ MapHas(roomMembers'[R], s)
     /\ roomMembers'[R][s] = [id |-> s, user |-> user, icon |-> icon]
     /\ \A r \in DOMAIN roomMembers : \A x \in DOMAIN roomMembers[r] :
          <<r, x>> # <<R, s>> => (MapHas(roomMembers'[r], x)
                                  /\ roomMembers'[r][x] = roomMembers[r][x])
     /\ UNCHANGED <<roomSockets, socketRooms, roomDirectory>>
     /\ response' = [op |-> "profile-update", sid |-> s, ok |-> TRUE,
                     profile |-> [user |-> user, icon |-> icon]]
     /\ Len(emitted') = 1
     /\ emitted'[1].ev = "profile-updated"
     /\ emitted'[1].group = R
     /\ emitted'[1].data = [id |-> s, user |-> user, icon |-> icon]
     /\ RemainingMembers(roomSockets, conn, R) \subseteq emitted'[1].to

C27_Deleted(R) ==
  LET members == {x \in Connected(conn) :
                    \/ MapHas(roomSockets, R) /\ x \in roomSockets[R]
                    \/ MapHas(roomMembers, R) /\ MapHas(roomMembers[R], x)}
      notices == {i \in DOMAIN emitted' : emitted'[i].ev = "room-deleted"}
      last == Len(emitted')
  IN /\ \A x \in members :
          Cardinality({i \in notices : emitted'[i].to = {x}
                                       /\ emitted'[i].data = [room |-> R]}) = 1
     /\ \A i \in notices : emitted'[i].to \subseteq members /\ emitted'[i].group = NoRoom
     /\ \A i \in DOMAIN emitted' : emitted'[i].ev \in {"room-deleted", "rooms-update"}
     /\ last >= 1
     /\ notices = 1..(last - 1)
     /\ emitted'[last] = Event("rooms-update", Everyone, Connected(conn'),
                               {[name |-> n] : n \in (DOMAIN roomDirectory) \ {R}})
     /\ ~MapHas(roomDirectory', R) /\ ~MapHas(roomSockets', R) /\ ~MapHas(roomMembers', R)
     /\ ~MapHas(roomMessages', R) /\ ~MapHas(callParticipants', R)

\* C27: a successful deleteRoom sends each connected member of the room one
\* direct room-deleted notice naming the room, broadcasts no "left" system
\* notice, purges the room's collections and then broadcasts to every
\* connected client a rooms-update whose list lacks the deleted name.
C27_DeleteNotifiesMembers ==
  [][event' = Handled("DELETE /api/admin/rooms", 0, Passes) =>
       \A tk \in adminSessions, n \in DeleteNames :
         C27_Deleted(sanitizeRoomName(n)) \/ ~AdminDeleteRoom(tk, n)]_vars

\* C27 witness: the default room has just been deleted with one connected
\* member in it and another client connected; the member was sent the notice,
\* then both were sent the updated list.
C27_Witness ==
  \E s \in Sessions :
    /\ event = Handled("DELETE /api/admin/rooms", 0, Passes)
    /\ emitted = << Event("room-deleted", NoRoom, {s}, [room |-> G]),
                    Event("rooms-update", Everyone, Sessions, {}) >>
    /\ Connected(conn) = Sessions
    /\ userProfiles[s].room = NoRoom

\* the roster of a room as a Map, empty when the room has no entry
RosterOf(cp, r) == IF MapHas(cp, r) THEN cp[r] ELSE EmptyMap

\* the handler emitted a call-participants broadcast to room r that carries
\* the roster after the step and reaches every connected member of r
C28_Broadcast(r) ==
  \E i \in DOMAIN emitted' :
    /\ emitted'[i].ev = "call-participants"
    /\ emitted'[i].group = r
    /\ emitted'[i].data = {RosterOf(callParticipants', r)[x] :
                             x \in DOMAIN RosterOf(callParticipants', r)}
    /\ RemainingMembers(roomSockets', conn', r) \subseteq emitted'[i].to

\* every room whose roster a call-participation or disconnect step changed
\* got the broadcast
C28_ChangeBroadcast ==
  event'.op \in {"call-participation", "disconnect"} =>
    \A r \in (DOMAIN callParticipants) \cup (DOMAIN callParticipants') :
      RosterOf(callParticipants, r) # RosterOf(callParticipants', r) => C28_Broadcast(r)

\* what the claim says of the call-participation event d of session s
C28_Call(s, d) ==
  LET hasRoom == MapHas(userProfiles, s) /\ userProfiles[s].room # NoRoom
      room == IF sanitizeRoomName(d.room) # <<>> THEN sanitizeRoomName(d.room)
              ELSE IF hasRoom THEN userProfiles[s].room ELSE NoRoom
      isMember == hasRoom /\ MapHas(roomDirectory, room)
                  /\ MapHas(roomSockets, room) /\ s \in roomSockets[room]
      inCall == MapHas(RosterOf(callParticipants, room), s)
  IN /\ (d.action \in {"join", "update"} /\ isMember) =>
          /\ MapHas(RosterOf(callParticipants', room), s)
          /\ C28_Broadcast(room)
          /\ \E i \in DOMAIN emitted' :
               emitted'[i].ev = "call-participants" /\ s \in emitted'[i].to
     /\ (d.action = "leave" /\ isMember /\ inCall) =>
          /\ ~MapHas(RosterOf(callParticipants', room), s)
          /\ C28_Broadcast(room)
          /\ \E i \in DOMAIN emitted' :
               emitted'[i].ev = "call-participants" /\ s \in emitted'[i].to
     /\ (d.action = "leave" /\ ~inCall) =>
          /\ UNCHANGED stateVars
          /\ emitted' = <<>>

C28_CallEvent ==
  event'.op = "call-participation" =>
    \A d \in CallInputs : C28_Call(event'.sid, d) \/ ~CallParticipation(event'.sid, d)

\* C28: every call-participation join or update, every leave of a participant
\* and every disconnect that changes a room's call roster emits, in the same
\* step, a call-participants broadcast with the roster after the change to
\* all connected members of the room, the sender of the event among them; a
\* leave of a session that is not in the roster changes and emits nothing.
C28_RosterChangeBroadcast == [][C28_ChangeBroadcast /\ C28_CallEvent]_vars

\* C28 witness: one of two members of the default room has just entered its
\* call; both were sent the roster, which lists that member.
C28_Witness ==
  \E s \in Sessions :
    /\ event = Handled("call-participation", s, Passes)
    /\ MapHas(roomSockets, G) /\ roomSockets[G] = Sessions
    /\ MapHas(callParticipants, G) /\ DOMAIN callParticipants[G] = {s}
    /\ \E i \in DOMAIN emitted :
         /\ emitted[i].ev = "call-participants"
         /\ emitted[i].to = Sessions
         /\ emitted[i].data = {callParticipants[G][s]}

\* the effect the claim gives an accepted join p of session s
C29_Joined(s, p) ==
  LET R == sanitizeRoomName(p.room)
      others == RemainingMembers(roomSockets', conn', R) \ {s}
      notices == {i \in DOMAIN emitted' : emitted'[i].ev = "system"}
      rosters == {i \in DOMAIN emitted' : emitted'[i].ev = "room-users"}
      direct == {i \in DOMAIN emitted' : emitted'[i].ev = "call-participants"}
  IN /\ Cardinality(notices) = 1
     /\ \A i \in notices :
          /\ emitted'[i].data = [kind |-> "joined", user |-> JoinRawName(p), room |-> R]
          /\ emitted'[i].to = others
          /\ s \notin emitted'[i].to
     /\ Cardinality(direct) = 1
     /\ \A i \in direct :
          /\ emitted'[i].to = {s}
          /\ emitted'[i].data = {RosterOf(callParticipants, R)[x] :
                                   x \in DOMAIN RosterOf(callParticipants, R)}
          /\ ~MapHas(callParticipants, R) => emitted'[i].data = {}
     /\ Cardinality(rosters) = 1
     /\ \A i \in rosters :
          /\ \A j \in notices : j < i
          /\ emitted'[i].group = R
          /\ others \cup {s} \subseteq emitted'[i].to
          /\ {e.id : e \in emitted'[i].data} = DOMAIN roomMembers'[R]
          /\ roomSockets'[R] \subseteq {e.id : e \in emitted'[i].data}
          /\ s \in {e.id : e \in emitted'[i].data}
          /\ Cardinality(emitted'[i].data) = Cardinality(DOMAIN roomMembers'[R])
          /\ \A e \in emitted'[i].data : e.user = roomMembers'[R][e.id].user

\* C29: an accepted join emits one "X joined room" system notice, to the other
\* connected members of the room and not to the joining session, sends the
\* joining session the room's call roster (the empty list when the room has
\* none), and then broadcasts a room roster that lists every member of the
\* room, the joining session among them, once each.
C29_JoinNotices ==
  [][(event'.op = "join" /\ event'.result = JoinPasses) =>
       \A p \in JoinPayloads : C29_Joined(event'.sid, p) \/ ~Join(event'.sid, p)]_vars

\* C29 witness: bob has just joined the default room where another session
\* is a member and in the call; the other session was sent the notice, bob
\* the call roster, and both the roster of two.
C29_Witness ==
  \E s \in Sessions, o \in Sessions :
    /\ s # o
    /\ event = Handled("join", s, JoinPasses)
    /\ Len(emitted) = 3
    /\ MapHas(userProfiles, s) /\ userProfiles[s].user = BOB
    /\ MapHas(callParticipants, G) /\ MapHas(callParticipants[G], o)
    /\ emitted[1] = Event("system", G, {o}, [kind |-> "joined", user |-> BOB, room |-> G])
    /\ emitted[2].to = {s} /\ emitted[2].data = {callParticipants[G][o]}
    /\ emitted[3].ev = "room-users" /\ emitted[3].to = {s, o}
    /\ Cardinality(emitted[3].data) = 2

\* C30: after a tick of the history-clear timer every room's history buffer
\* is empty; the tick emits one clear-history notice, to the room's group, for
\* each room whose buffer held an entry and none for any other room; it
\* changes no membership, call roster, profile or directory state.
C30_ClearTick ==
  [][event'.op = "clear-history timer" =>
       LET had == {r \in DOMAIN roomMessages : roomMessages[r] # <<>>} IN
       /\ DOMAIN roomMessages' = DOMAIN roomMessages
       /\ \A r \in (DOMAIN roomMessages') \cup (DOMAIN roomDirectory) :
            MapHas(roomMessages', r) /\ roomMessages'[r] = <<>>
       /\ Len(emitted') = Cardinality(had)
       /\ {emitted'[i].group : i \in DOMAIN emitted'} = had
       /\ \A i \in DOMAIN emitted' :
            /\ emitted'[i].ev = "clear-history"
            /\ emitted'[i].data = [room |-> emitted'[i].group]
            /\ RemainingMembers(roomSockets, conn, emitted'[i].group) \subseteq emitted'[i].to
       /\ UNCHANGED <<conn, socketRooms, roomDirectory, roomSockets, roomMembers,
                      callParticipants, userProfiles, adminSessions>>
    ]_vars

\* C30 witness: the timer has just ticked with an entry in the history of the
\* default room and none in that of a second room; the member of the default
\* room was sent the one notice.
C30_Witness ==
  /\ event = Handled("clear-history timer", 0, Passes)
  /\ DOMAIN roomMessages = {G, L}
  /\ roomMessages[G] = <<>> /\ roomMessages[L] = <<>>
  /\ Len(emitted) = 1
  /\ emitted[1].ev = "clear-history"
  /\ emitted[1].data = [room |-> G]
  /\ emitted[1].to # {}
  /\ emitted[1].to \subseteq roomSockets[G]

\* the payloads of the 'message' broadcasts an emit sequence holds for room r,
\* in the order they were emitted
MessagesSentTo(em, r) ==
  LET sel == SelectSeq(em, LAMBDA e : e.ev = "message" /\ e.group = r)
  IN [i \in 1..Len(sel) |-> sel[i].data]

\* in one step: the 'message' broadcasts to a room are the entries the step
\* appended to the room's buffer, in the same order, and the entries that
\* stay in the buffer are unchanged and in their places
C31_StepInOrder ==
  /\ \A i \in DOMAIN emitted' :
       emitted'[i].ev = "message" => MapHas(roomMessages', emitted'[i].group)
  /\ \A r \in (DOMAIN roomMessages) \cap (DOMAIN roomMessages') :
       LET sent == MessagesSentTo(emitted', r)
           old == roomMessages[r]
           over == Len(old) + Len(sent) - MAX_MESSAGES_PER_ROOM
           k == IF over > 0 THEN over ELSE 0
       IN IF event'.op = "clear-history timer"
            THEN sent = <<>> /\ roomMessages'[r] = <<>>
            ELSE /\ roomMessages'[r] = SubSeq(old, k + 1, Len(old)) \o sent
                 /\ appended'[r] = appended[r] \o sent
  /\ \A r \in (DOMAIN roomMessages') \ (DOMAIN roomMessages) :
       roomMessages'[r] = <<>> /\ MessagesSentTo(emitted', r) = <<>>

\* C31: in every step the 'message' broadcasts emitted to a room are exactly
\* the entries appended to the room's history buffer, in the same order, and
\* every entry that stays in the buffer keeps its author, text, avatar and
\* location, whatever the author's profile becomes.
C31_BroadcastOrderIsHistoryOrder == [][C31_StepInOrder]_vars

\* C31 witness: the author of the entry in the default room's history has
\* since taken another name; the entry still carries the name it was sent
\* under.
C31_Witness ==
  \E s \in Sessions :
    /\ MapHas(userProfiles, s) /\ userProfiles[s].room = G
    /\ userProfiles[s].user = BOB
    /\ MapHas(roomMembers[G], s) /\ roomMembers[G][s].user = BOB
    /\ Len(roomMessages[G]) = 1
    /\ roomMessages[G][1].user = ALICE
    /\ roomMessages[G] = appended[G]

\* C32: a message event that appends no entry to any history buffer leaves
\* the profile store and the membership registry (socket-id sets and member
\* Maps) unchanged.
C32_DroppedMessageNoEffect ==
  [][(event'.op = "message" /\ appended' = appended /\ roomMessages' = roomMessages)
     => UNCHANGED <<userProfiles, roomSockets, roomMembers>>]_vars

\* C34: a successful deleteRoom leaves every session whose current room is
\* another room B as it was: the room of its profile, its entry in B's member
\* Map and socket-id set, and its entry in B's call roster.
C34_DeleteLeavesOtherRooms ==
  [][event' = Handled("DELETE /api/admin/rooms", 0, Passes) =>
       \A s \in DOMAIN userProfiles :
         LET B == userProfiles[s].room IN
         (B # NoRoom /\ MapHas(roomDirectory', B)) =>
           /\ MapHas(userProfiles', s) /\ userProfiles'[s].room = B
           /\ RosterOf(roomMembers', B) = RosterOf(roomMembers, B)
           /\ RosterOf(roomSockets', B) = RosterOf(roomSockets, B)
           /\ RosterOf(callParticipants', B) = RosterOf(callParticipants, B)
    ]_vars

\* C35: a call-participation event leaves the room recorded in the profile of
\* the session that sent it as it was.
C35_CallKeepsCurrentRoom ==
  [][event'.op = "call-participation" =>
       /\ MapHas(userProfiles', event'.sid) <=> MapHas(userProfiles, event'.sid)
       /\ MapHas(userProfiles, event'.sid) =>
            userProfiles'[event'.sid].room = userProfiles[event'.sid].room
    ]_vars

\* every session whose profile records a room R: R is in the directory and
\* the session is in R's socket-id set and member Map
C36_ProfileRoomIsMembership ==
  \A s \in DOMAIN userProfiles :
    LET R == userProfiles[s].room IN
    R # NoRoom =>
      /\ MapHas(roomDirectory, R)
      /\ MapHas(roomSockets, R) /\ s \in roomSockets[R]
      /\ MapHas(roomMembers, R) /\ MapHas(roomMembers[R], s)

\* every session in a room's socket-id set or member Map is connected and its
\* profile records that room
C36_MembershipIsProfileRoom ==
  \A s \in AllSessions :
    \A r \in RoomsOf(s) :
      /\ conn[s] = "connected"
      /\ MapHas(userProfiles, s) /\ userProfiles[s].room = r

\* C36: the room recorded in a session's profile is a directory room whose
\* membership registry holds the session, and every session in a room's
\* membership registry is connected with that room recorded in its profile.
C36_ProfileMatchesMembership ==
  C36_ProfileRoomIsMembership /\ C36_MembershipIsProfileRoom

\* C37: the directory, the socket-id registry, the member roster and the
\* history map have the same room names as keys; every call roster belongs to
\* a directory room; for each room the ids of its socket-id set are the keys
\* of its member Map.
C37_CollectionsAligned ==
  /\ DOMAIN roomSockets = DOMAIN roomDirectory
  /\ DOMAIN roomMembers = DOMAIN roomDirectory
  /\ DOMAIN roomMessages = DOMAIN roomDirectory
  /\ DOMAIN callParticipants \subseteq DOMAIN roomDirectory
  /\ \A r \in DOMAIN roomDirectory : roomSockets[r] = DOMAIN roomMembers[r]

\* C37 witness: the default room has just been deleted; a second room, with a
\* member, is what all four collections hold.
C37_Witness ==
  /\ event = Handled("DELETE /api/admin/rooms", 0, Passes)
  /\ DOMAIN roomDirectory = {L}
  /\ DOMAIN roomSockets = {L} /\ DOMAIN roomMembers = {L} /\ DOMAIN roomMessages = {L}
  /\ roomSockets[L] # {}
  /\ roomSockets[L] = DOMAIN roomMembers[L]

\* the chat input and the send button of a page are enabled
ChatEnabled(k) == ~k.inputDisabled /\ ~k.sendDisabled

\* while the page is in a room and shares its location continuously, the chat
\* input and the send button are enabled
C33_EnabledWhileSharing ==
  \A c \in {1} :
    InRoom(client[c]) /\ client[c].isContinuousLocationSharing => ChatEnabled(client[c])

\* a position update, throttled or not, and a geolocation error of a page in a
\* room leave the page in the room with the chat input and the send button
\* enabled
C33_StepKeepsEnabled ==
  event'.op \in {"handlePosition", "handleError"} /\ InRoom(client[event'.sid]) =>
    InRoom(client'[event'.sid]) /\ ChatEnabled(client'[event'.sid])

\* a click on the send button of a page in a room that shares its location,
\* with text in the field, emits one 'message' with the trimmed text and the
\* room of the page
C33_StepSendEmits ==
  \A value \in FieldValues :
    \/ event'.op # "sendMessage"
    \/ ~(InRoom(client[1]) /\ client[1].isContinuousLocationSharing /\ Trim(value) # <<>>)
    \/ ~PageDoes(MaxShareEvents, 1, "sendMessage", sendMessage(client[1], value))
    \/ wire'[1].up = Append(wire[1].up,
                            Emit("message", [user |-> Str(UserName), room |-> Str(client[1].ROOM),
                                             icon |-> NullIcon, text |-> Str(Trim(value)),
                                             location |-> NoLocation]))

\* a 'message' with text that reaches the server while its sender is in the
\* socket-id set of the room the page named is emitted to the group of that
\* room, the sender included, and is on its way back to the page
C33_StepDelivered ==
  LET c == event'.sid
      m == Head(wire[c].up)
  IN
  \/ event'.op # "message"
  \/ ~(MessageText(m.data) # <<>> /\ m.data.room.t = "string")
  \/ ~(MapHas(roomSockets, m.data.room.v) /\ c \in roomSockets[m.data.room.v])
  \/ /\ event'.result = Passes
     /\ Len(emitted') = 1
     /\ emitted'[1].ev = "message"
     /\ emitted'[1].group = m.data.room.v
     /\ emitted'[1].to = Subscribers(socketRooms, m.data.room.v)
     /\ c \in emitted'[1].to
     /\ emitted'[1].data.text = MessageText(m.data)
     /\ wire'[c].down = Append(wire[c].down, Emit("message", emitted'[1].data))

\* C33: while the page is joined to a room and continuous location sharing is
\* active, the chat input and the send button stay enabled through position
\* updates, throttled updates and geolocation errors, and a text message sent
\* in that state is emitted to the server and delivered to the room.
C33_ChatDuringLocationShare ==
  /\ []C33_EnabledWhileSharing
  /\ [][C33_StepKeepsEnabled /\ C33_StepSendEmits /\ C33_StepDelivered]_vars

\* C33 witness: the page shares its location and has sent its first position;
\* the text typed meanwhile has just been delivered to the room, where another
\* socket is subscribed.
C33_Witness ==
  /\ event = Handled("message", 1, Passes)
  /\ InRoom(client[1])
  /\ client[1].isContinuousLocationSharing
  /\ client[1].hasSentInitialContinuousLocationMessage
  /\ ChatEnabled(client[1])
  /\ Len(emitted) = 1
  /\ emitted[1].data.text = HI
  /\ emitted[1].to = {1, 2}

\* the session is in the call roster of the room of its page
ListedInOwnRoom(c) ==
  /\ client[c].ROOM # NoRoom
  /\ MapHas(callParticipants, client[c].ROOM)
  /\ MapHas(callParticipants[client[c].ROOM], c)

\* nothing is in flight between the page of c and the server
Quiet(c) == wire[c].up = <<>> /\ wire[c].down = <<>>

\* a page in a call holds the local stream (createOfferForPeer relies on it)
StreamHeldInCall == \A c \in {1, 2} : client[c].inCall => client[c].localStream

\* C38: whenever no message is in flight between the page and the server, the
\* page's session is in the server's call roster of its room exactly when the
\* page's inCall flag is true.
C38_CallAgreementWhenQuiet ==
  \A c \in {1} : Quiet(c) => (ListedInOwnRoom(c) <=> client[c].inCall)

\* C39: a page that is in a call (inCall true or a local microphone stream
\* held) is joined to a room (joined true and ROOM set).
C39_InCallImpliesJoined ==
  \A c \in {1} : client[c].inCall \/ client[c].localStream => InRoom(client[c])

\* the 'webrtc' event m, as emitted by a page, is an offer for b
IsOfferFor(m, b) ==
  m.ev = "webrtc" /\ m.data.data.type = "offer" /\ m.data.data.target = b

\* the offers page a has created for page b: on their way to the server, on
\* their way from the server to b, or the local description of a's connection
OffersOnWire(a, b) ==
  {i \in 1..Len(wire[a].up) : IsOfferFor(wire[a].up[i], b)}

OffersRelayed(a, b) ==
  {i \in 1..Len(wire[b].down) :
     IsOfferFor(wire[b].down[i], b) /\ wire[b].down[i].data.sender = a}

HasLocalOffer(a, b) ==
  MapHas(client[a].peerConnections, b) /\ client[a].peerConnections[b] = "have-local-offer"

Outstanding(a, b) ==
  OffersOnWire(a, b) # {} \/ OffersRelayed(a, b) # {} \/ HasLocalOffer(a, b)

\* only the page with the smaller session id has an offer for the other
C40_OffersFromSmallerId ==
  \A a \in Pages, b \in Pages : Outstanding(a, b) => a < b

\* two pages never have offers for each other outstanding at the same time
C40_NoMutualOffers ==
  \A a \in Pages, b \in Pages : ~(a # b /\ Outstanding(a, b) /\ Outstanding(b, a))

\* a page that is not in a call and handles a call-ready signal changes
\* nothing and emits nothing
C40_StepCallReadyIgnored ==
  LET c == event'.sid IN
  \/ event'.op # "page-receives"
  \/ event'.result # "webrtc"
  \/ Head(wire[c].down).data.data.type # "call-ready"
  \/ client[c].inCall
  \/ client'[c] = client[c] /\ wire'[c].up = wire[c].up

\* C40: of two pages in the same call only the one with the smaller session id
\* creates and sends an offer to the other (on a roster update or a call-ready
\* signal), so the two never have offers to each other outstanding at the
\* same time; a page that is not in a call ignores call-ready signals.
C40_SingleInitiator ==
  /\ [](C40_OffersFromSmallerId /\ C40_NoMutualOffers)
  /\ [][C40_StepCallReadyIgnored]_vars

\* C40 witness: both pages are in the call; page 1 has sent its offer to
\* page 2, page 2 has answered and page 1 has applied the answer.
C40_Witness ==
  /\ client[1].inCall /\ client[2].inCall
  /\ MapHas(client[1].peerConnections, 2) /\ client[1].peerConnections[2] = "stable"
  /\ MapHas(client[2].peerConnections, 1) /\ client[2].peerConnections[1] = "stable"
  /\ event = Handled("page-receives", 1, "webrtc")

=============================================================================
